---------------------------- MODULE Spec2Model ----------------------------
(***************************************************************************)
(* A model of the telephony compatibility layer:                           *)
(*   - the call-control document model (twiml/voice_response.py): an      *)
(*     element heap in the manner of xml.etree.ElementTree, the verb and  *)
(*     noun builders, append, and serialization;                           *)
(*   - the event normalizer (webhook_helper.py).                           *)
(***************************************************************************)
EXTENDS Integers, Sequences, FiniteSets, TLC

(***************************************************************************)
(* Python values.  A value is a record [t, v]: t is the Python type and v  *)
(* the payload.  A str is a sequence of one-character strings, so that     *)
(* per-character code (escaping, lower(), startswith) is computed.         *)
(***************************************************************************)
PyNone == [t |-> "None", v |-> 0]
PyS(s) == [t |-> "str", v |-> s]
PyInt(i) == [t |-> "int", v |-> i]
PyBool(b) == [t |-> "bool", v |-> b]
PyList(l) == [t |-> "list", v |-> l]

\* Python ==, on values of the kinds above (True == 1 as in Python).
PyEq(a, b) ==
    IF a.t = b.t THEN a.v = b.v
    ELSE IF a.t = "bool" /\ b.t = "int" THEN (IF a.v THEN 1 ELSE 0) = b.v
    ELSE IF a.t = "int" /\ b.t = "bool" THEN a.v = (IF b.v THEN 1 ELSE 0)
    ELSE FALSE

\* Python truthiness: bool(x).
Truthy(x) ==
    CASE x.t = "None" -> FALSE
      [] x.t = "str" -> Len(x.v) > 0
      [] x.t = "int" -> x.v # 0
      [] x.t = "bool" -> x.v
      [] x.t = "list" -> Len(x.v) > 0
      [] x.t = "dict" -> DOMAIN x.v # {}
      [] OTHER -> TRUE

DigitChars == <<"0", "1", "2", "3", "4", "5", "6", "7", "8", "9">>

RECURSIVE NatToStr(_)
NatToStr(n) ==
    IF n < 10 THEN <<DigitChars[n + 1]>>
    ELSE NatToStr(n \div 10) \o <<DigitChars[(n % 10) + 1]>>

\* str(i) for an int: its decimal digits, with a leading '-' when negative.
IntToStr(i) == IF i < 0 THEN <<"-">> \o NatToStr(0 - i) ELSE NatToStr(i)

\* str(x).
PyStr(x) ==
    CASE x.t = "str" -> x.v
      [] x.t = "int" -> IntToStr(x.v)
      [] x.t = "bool" -> IF x.v THEN <<"T", "r", "u", "e">>
                         ELSE <<"F", "a", "l", "s", "e">>
      [] OTHER -> <<"N", "o", "n", "e">>

RECURSIVE JoinSpace(_)
\* ' '.join(l) for a list of str.
JoinSpace(l) ==
    IF Len(l) = 0 THEN <<>>
    ELSE IF Len(l) = 1 THEN l[1]
    ELSE l[1] \o <<" ">> \o JoinSpace(Tail(l))

\* Literals of the code, spelt as character sequences.
POST == <<"P", "O", "S", "T">>
GET == <<"G", "E", "T">>
s_true == <<"t", "r", "u", "e">>
s_false == <<"f", "a", "l", "s", "e">>

(***************************************************************************)
(* State.                                                                  *)
(*   elems     the heap of xml.etree Element objects, in allocation order; *)
(*             an element is [tag, attrib, text, tail, children], attrib   *)
(*             a sequence of <<name, value>> in insertion order, children  *)
(*             a sequence of element ids (references)                      *)
(*   responses the ids of the root elements of the VoiceResponse objects   *)
(*   wrappers  the scoped builder objects handed out so far: [cls, elem]   *)
(*   loop      the position of a running `for child in twiml.root` of      *)
(*             append: <<>> when none runs, else <<[dst, src, i]>>         *)
(*   last      the last completed call: [op, on, kw, node, ret]            *)
(*   born      history: per element, the container it was created in, the  *)
(*             response whose call chain created it and the index of the   *)
(*             creating call in that response's call log                   *)
(*   calls     history: per response, the builder calls made on it and on  *)
(*             the scoped builders it handed out                           *)
(*   ncalls    history: the number of constructor and builder calls made   *)
(*   request   the request data handed to WebhookHelper.process_webhook    *)
(*   client    the client handed to it: 0 for None                         *)
(*   contexts  WebhookHelper._contexts: the client stored per CallSid      *)
(*   returned  the outcome of the last WebhookHelper call: [op, exc, map,  *)
(*             got], exc the class of the exception raised or "", map the  *)
(*             parameter map returned, got the client looked up            *)
(*   history   history: per process_webhook call, the CallSid of the map   *)
(*             it returned (None when it has none) and the client given    *)
(***************************************************************************)
VARIABLES elems, responses, wrappers, loop, last, born, calls, ncalls,
          request, client, contexts, returned, history,
          call, callret, variant, input, output

docvars == <<elems, responses, wrappers, loop, last, born, calls, ncalls>>
hookvars == <<request, client, contexts, returned, history>>
callvars == <<call, callret, variant>>
purevars == <<input, output>>
restvars == <<callvars, purevars>>
vars == <<docvars, hookvars, restvars>>

\* Bound: the number of constructor and builder calls made after Init.
MaxCalls == 2
\* Bound: the length to which the loop of a response appended to itself,
\* which does not end, may grow the child list.
MaxChildren == 3

Ids == 1..Len(elems)

(***************************************************************************)
(* xml.etree.ElementTree, as far as the builders use it.                   *)
(***************************************************************************)
\* Element(tag): a fresh element.
Element(tag) ==
    [tag |-> tag, attrib |-> <<>>, text |-> PyNone, tail |-> PyNone,
     children |-> <<>>]

HasAttr(e, k) == \E i \in 1..Len(e.attrib) : e.attrib[i][1] = k

AttrOf(e, k) == e.attrib[CHOOSE i \in 1..Len(e.attrib) : e.attrib[i][1] = k][2]

\* elem.set(k, v) on the attrib dict: an existing key keeps its position.
SetAttr(attrib, k, v) ==
    IF \E i \in 1..Len(attrib) : attrib[i][1] = k
    THEN [i \in 1..Len(attrib) |->
            IF attrib[i][1] = k THEN <<k, v>> ELSE attrib[i]]
    ELSE Append(attrib, <<k, v>>)

RECURSIVE SetAll(_, _)
\* A run of elem.set calls, in order.
SetAll(attrib, sets) ==
    IF Len(sets) = 0 THEN attrib
    ELSE SetAll(SetAttr(attrib, sets[1][1], sets[1][2]), Tail(sets))

\* `if c: elem.set(k, v)`.
When(c, k, v) == IF c THEN << <<k, v>> >> ELSE <<>>

RECURSIVE KwargsSets(_)
\* `for key, value in kwargs.items(): if value is not None:
\*      elem.set(key, str(value))`
KwargsSets(kwargs) ==
    IF Len(kwargs) = 0 THEN <<>>
    ELSE When(kwargs[1][2].t # "None", kwargs[1][1], PyS(PyStr(kwargs[1][2])))
         \o KwargsSets(Tail(kwargs))

\* parent.append(child): the reference is added at the end; the child is
\* not taken out of any list that already holds it.
ElemAppend(es, parent, child) ==
    [es EXCEPT ![parent].children = Append(@, child)]

\* A SubElement that puts the fresh element before its siblings.
SubElement_first(es, parent, tag) ==
    [Append(es, Element(tag)) EXCEPT
        ![parent].children = <<Len(es) + 1>> \o @]

\* SubElement(parent, tag): a fresh element, appended to parent.  The new
\* element's id is Len(es) + 1.
SubElement(es, parent, tag) ==
    ElemAppend(Append(es, Element(tag)), parent, Len(es) + 1)

\* An _escape_cdata that leaves "&" as it is.
EscapeCdataChar_raw(c) ==
    CASE c = "<" -> "&lt;"
      [] c = ">" -> "&gt;"
      [] OTHER -> c

\* _escape_cdata, one character.
EscapeCdataChar(c) ==
    CASE c = "&" -> "&amp;"
      [] c = "<" -> "&lt;"
      [] c = ">" -> "&gt;"
      [] OTHER -> c

\* _escape_attrib, one character.
EscapeAttribChar(c) ==
    CASE c = "&" -> "&amp;"
      [] c = "<" -> "&lt;"
      [] c = ">" -> "&gt;"
      [] c = "\"" -> "&quot;"
      [] c = "\n" -> "&#10;"
      [] OTHER -> c

RECURSIVE EscapeCdata(_)
EscapeCdata(s) ==
    IF Len(s) = 0 THEN "" ELSE EscapeCdataChar(s[1]) \o EscapeCdata(Tail(s))

RECURSIVE EscapeAttrib(_)
EscapeAttrib(s) ==
    IF Len(s) = 0 THEN "" ELSE EscapeAttribChar(s[1]) \o EscapeAttrib(Tail(s))

RECURSIVE SerializeAttrib(_)
\* ' %s="%s"' for each item of the attrib dict, in insertion order.
SerializeAttrib(attrib) ==
    IF Len(attrib) = 0 THEN ""
    ELSE " " \o attrib[1][1] \o "=\"" \o EscapeAttrib(attrib[1][2].v) \o "\""
         \o SerializeAttrib(Tail(attrib))

\* Whether tostring can write the element: every attribute value and the
\* text must be a str (tostring raises TypeError otherwise).
RECURSIVE Serializable(_, _)
Serializable(es, n) ==
    /\ \A i \in 1..Len(es[n].attrib) : es[n].attrib[i][2].t = "str"
    /\ es[n].text.t \in {"None", "str"}
    /\ es[n].tail.t \in {"None", "str"}
    /\ \A i \in 1..Len(es[n].children) : Serializable(es, es[n].children[i])

RECURSIVE SerializeXml(_, _)
RECURSIVE SerializeChildren(_, _)
\* _serialize_xml: the start tag with its attributes, then the text and
\* the children depth first and the end tag, or the short form when the
\* element has neither text nor children; then the tail, if any.
SerializeXml(es, n) ==
    LET e == es[n] IN
    "<" \o e.tag \o SerializeAttrib(e.attrib) \o
    (IF Truthy(e.text) \/ Len(e.children) > 0
     THEN ">" \o (IF Truthy(e.text) THEN EscapeCdata(e.text.v) ELSE "")
              \o SerializeChildren(es, e.children)
              \o "</" \o e.tag \o ">"
     ELSE " />")
    \o (IF Truthy(e.tail) THEN EscapeCdata(e.tail.v) ELSE "")

SerializeChildren(es, ch) ==
    IF Len(ch) = 0 THEN ""
    ELSE SerializeXml(es, ch[1]) \o SerializeChildren(es, Tail(ch))

\* tostring(root, encoding='unicode', method='xml')
tostring(es, n) == SerializeXml(es, n)

XmlDeclaration == "<?xml version=\"1.0\" encoding=\"UTF-8\"?>"

\* TwiML.__str__: tostring never writes a declaration for encoding
\* 'unicode' (its output starts with "<" and the root's tag), so the
\* declaration is always put in front.
TwiML_str(es, r) == XmlDeclaration \o tostring(es, r)

\* TwiML.__eq__, for two TwiML objects.
TwiML_eq(es, r1, r2) == TwiML_str(es, r1) = TwiML_str(es, r2)

(***************************************************************************)
(* The attributes each builder writes: the elem.set calls of its body, in  *)
(* order, as a function of its keyword arguments kw.                       *)
(***************************************************************************)
Is(x, lit) == PyEq(x, PyS(lit))
IsInt(x, i) == PyEq(x, PyInt(i))
BoolAttr(x) == PyS(IF Truthy(x) THEN s_true ELSE s_false)
StrOf(x) == PyS(PyStr(x))
JoinOf(x) == PyS(JoinSpace(x.v))

s_trim_silence ==
    <<"t", "r", "i", "m", "-", "s", "i", "l", "e", "n", "c", "e">>
s_en_US == <<"e", "n", "-", "U", "S">>
s_auto == <<"a", "u", "t", "o">>
s_dtmf == <<"d", "t", "m", "f">>
s_rejected == <<"r", "e", "j", "e", "c", "t", "e", "d">>
s_finish_keys ==
    <<"1", "2", "3", "4", "5", "6", "7", "8", "9", "0", "*", "#">>
s_both_tracks ==
    <<"b", "o", "t", "h", "_", "t", "r", "a", "c", "k", "s">>

\* A say that writes loop whatever its value.
say_sets_always(kw) ==
    When(Truthy(kw.voice), "voice", kw.voice)
    \o When(Truthy(kw.language), "language", kw.language)
    \o When(TRUE, "loop", StrOf(kw.loop))

\* VoiceResponse.say and Gather.say
say_sets(kw) ==
    When(Truthy(kw.voice), "voice", kw.voice)
    \o When(Truthy(kw.language), "language", kw.language)
    \o When(~IsInt(kw.loop, 1), "loop", StrOf(kw.loop))

\* VoiceResponse.play and Gather.play
play_sets(kw) ==
    When(~IsInt(kw.loop, 1), "loop", StrOf(kw.loop))
    \o When(Truthy(kw.digits), "digits", kw.digits)

\* VoiceResponse.gather
gather_sets(kw) ==
    When(Truthy(kw.input) /\ ~Is(kw.input, s_dtmf), "input", kw.input)
    \o When(Truthy(kw.action), "action", kw.action)
    \o When(~Is(kw.method, POST), "method", kw.method)
    \o When(~IsInt(kw.timeout, 5), "timeout", StrOf(kw.timeout))
    \o When(kw.finish_on_key.t # "None", "finishOnKey", kw.finish_on_key)
    \o When(Truthy(kw.num_digits), "numDigits", StrOf(kw.num_digits))
    \o When(Truthy(kw.partial_result_callback), "partialResultCallback",
            kw.partial_result_callback)
    \o When(~Is(kw.partial_result_callback_method, POST),
            "partialResultCallbackMethod", kw.partial_result_callback_method)
    \o When(~Is(kw.language, s_en_US), "language", kw.language)
    \o When(Truthy(kw.hints), "hints", kw.hints)
    \o When(kw.barge_in.t # "None", "bargeIn", BoolAttr(kw.barge_in))
    \o When(kw.debug.t # "None", "debug", BoolAttr(kw.debug))
    \o When(kw.action_on_empty_result.t # "None", "actionOnEmptyResult",
            BoolAttr(kw.action_on_empty_result))
    \o When(~Is(kw.speech_timeout, s_auto), "speechTimeout", kw.speech_timeout)
    \o When(kw.enhanced.t # "None", "enhanced", BoolAttr(kw.enhanced))
    \o When(Truthy(kw.speech_model), "speechModel", kw.speech_model)
    \o When(kw.profanity_filter.t # "None", "profanityFilter",
            BoolAttr(kw.profanity_filter))

\* VoiceResponse.record
record_sets(kw) ==
    When(Truthy(kw.action), "action", kw.action)
    \o When(~Is(kw.method, POST), "method", kw.method)
    \o When(~IsInt(kw.timeout, 5), "timeout", StrOf(kw.timeout))
    \o When(~Is(kw.finish_on_key, s_finish_keys), "finishOnKey",
            kw.finish_on_key)
    \o When(~IsInt(kw.max_length, 3600), "maxLength", StrOf(kw.max_length))
    \o When(~Truthy(kw.play_beep), "playBeep", PyS(s_false))
    \o When(~Is(kw.trim, s_trim_silence), "trim", kw.trim)
    \o When(Truthy(kw.recording_status_callback), "recordingStatusCallback",
            kw.recording_status_callback)
    \o When(~Is(kw.recording_status_callback_method, POST),
            "recordingStatusCallbackMethod",
            kw.recording_status_callback_method)
    \o When(Truthy(kw.recording_status_callback_event),
            "recordingStatusCallbackEvent",
            JoinOf(kw.recording_status_callback_event))
    \o When(Truthy(kw.transcribe), "transcribe", PyS(s_true))
    \o When(Truthy(kw.transcribe_callback), "transcribeCallback",
            kw.transcribe_callback)

\* VoiceResponse.dial
dial_sets(kw) ==
    When(Truthy(kw.action), "action", kw.action)
    \o When(~Is(kw.method, POST), "method", kw.method)
    \o When(~IsInt(kw.timeout, 30), "timeout", StrOf(kw.timeout))
    \o When(Truthy(kw.hangup_on_star), "hangupOnStar", PyS(s_true))
    \o When(~IsInt(kw.time_limit, 14400), "timeLimit", StrOf(kw.time_limit))
    \o When(Truthy(kw.caller_id), "callerId", kw.caller_id)
    \o When(Truthy(kw.record), "record", kw.record)
    \o When(~Is(kw.trim, s_trim_silence), "trim", kw.trim)
    \o When(Truthy(kw.recording_status_callback), "recordingStatusCallback",
            kw.recording_status_callback)
    \o When(~Is(kw.recording_status_callback_method, POST),
            "recordingStatusCallbackMethod",
            kw.recording_status_callback_method)
    \o When(Truthy(kw.recording_status_callback_event),
            "recordingStatusCallbackEvent",
            JoinOf(kw.recording_status_callback_event))
    \o When(Truthy(kw.answer_on_bridge), "answerOnBridge", PyS(s_true))
    \o When(Truthy(kw.ring_tone), "ringTone", kw.ring_tone)
    \o KwargsSets(kw.kwargs)

\* VoiceResponse.redirect
redirect_sets(kw) == When(~Is(kw.method, POST), "method", kw.method)

\* VoiceResponse.reject
reject_sets(kw) == When(~Is(kw.reason, s_rejected), "reason", kw.reason)

\* VoiceResponse.pause and Gather.pause
pause_sets(kw) == When(~IsInt(kw.length, 1), "length", StrOf(kw.length))

\* VoiceResponse.enqueue
enqueue_sets(kw) ==
    When(Truthy(kw.action), "action", kw.action)
    \o When(~Is(kw.method, POST), "method", kw.method)
    \o When(Truthy(kw.wait_url), "waitUrl", kw.wait_url)
    \o When(~Is(kw.wait_url_method, POST), "waitUrlMethod", kw.wait_url_method)
    \o When(Truthy(kw.workflow_sid), "workflowSid", kw.workflow_sid)
    \o KwargsSets(kw.kwargs)

\* VoiceResponse.refer and VoiceResponse.connect
action_method_sets(kw) ==
    When(Truthy(kw.action), "action", kw.action)
    \o When(~Is(kw.method, POST), "method", kw.method)

\* Dial.number
number_sets(kw) ==
    When(Truthy(kw.send_digits), "sendDigits", kw.send_digits)
    \o When(Truthy(kw.url) \/ Truthy(kw.status_callback), "url",
            IF Truthy(kw.url) THEN kw.url ELSE kw.status_callback)
    \o When(~Is(kw.method, POST), "method", kw.method)
    \o When(Truthy(kw.status_callback_event), "statusCallbackEvent",
            JoinOf(kw.status_callback_event))
    \o When(~Is(kw.status_callback_method, POST), "statusCallbackMethod",
            kw.status_callback_method)
    \o KwargsSets(kw.kwargs)

\* Dial.sip
sip_sets(kw) ==
    When(Truthy(kw.username), "username", kw.username)
    \o When(Truthy(kw.password), "password", kw.password)
    \o KwargsSets(kw.kwargs)

\* Dial.client
client_sets(kw) ==
    When(Truthy(kw.url), "url", kw.url)
    \o When(~Is(kw.method, POST), "method", kw.method)
    \o KwargsSets(kw.kwargs)

\* Dial.conference
conference_sets(kw) ==
    When(Truthy(kw.muted), "muted", PyS(s_true))
    \o (IF kw.beep.t = "str" THEN << <<"beep", kw.beep>> >>
        ELSE When(~Truthy(kw.beep), "beep", PyS(s_false)))
    \o When(~Truthy(kw.start_conference_on_enter), "startConferenceOnEnter",
            PyS(s_false))
    \o When(Truthy(kw.end_conference_on_exit), "endConferenceOnExit",
            PyS(s_true))
    \o When(Truthy(kw.wait_url), "waitUrl", kw.wait_url)
    \o When(~Is(kw.wait_method, POST), "waitMethod", kw.wait_method)
    \o When(Truthy(kw.max_participants), "maxParticipants",
            StrOf(kw.max_participants))
    \o When(Truthy(kw.record), "record", kw.record)
    \o When(Truthy(kw.region), "region", kw.region)
    \o When(Truthy(kw.whisper), "whisper", kw.whisper)
    \o When(~Is(kw.trim, s_trim_silence), "trim", kw.trim)
    \o When(Truthy(kw.status_callback_event), "statusCallbackEvent",
            JoinOf(kw.status_callback_event))
    \o When(Truthy(kw.status_callback), "statusCallback", kw.status_callback)
    \o When(~Is(kw.status_callback_method, POST), "statusCallbackMethod",
            kw.status_callback_method)
    \o When(Truthy(kw.recording_channels), "recordingChannels",
            kw.recording_channels)
    \o When(Truthy(kw.recording_status_callback), "recordingStatusCallback",
            kw.recording_status_callback)
    \o When(~Is(kw.recording_status_callback_method, POST),
            "recordingStatusCallbackMethod",
            kw.recording_status_callback_method)
    \o When(Truthy(kw.coaching), "coaching", PyS(s_true))
    \o When(Truthy(kw.call_sid_to_coach), "callSidToCoach",
            kw.call_sid_to_coach)
    \o KwargsSets(kw.kwargs)

\* Dial.queue
queue_sets(kw) ==
    When(Truthy(kw.url), "url", kw.url)
    \o When(~Is(kw.method, POST), "method", kw.method)
    \o When(Truthy(kw.reservation_sid), "reservationSid", kw.reservation_sid)
    \o When(Truthy(kw.post_work_activity_sid), "postWorkActivitySid",
            kw.post_work_activity_sid)
    \o KwargsSets(kw.kwargs)

\* Start.stream
start_stream_sets(kw) ==
    When(Truthy(kw.name), "name", kw.name)
    \o When(Truthy(kw.connector_name), "connectorName", kw.connector_name)
    \o When(Truthy(kw.url), "url", kw.url)
    \o When(~Is(kw.track, s_both_tracks), "track", kw.track)
    \o When(Truthy(kw.status_callback), "statusCallback", kw.status_callback)
    \o When(~Is(kw.status_callback_method, POST), "statusCallbackMethod",
            kw.status_callback_method)
    \o KwargsSets(kw.kwargs)

\* Connect.stream
connect_stream_sets(kw) ==
    When(Truthy(kw.name), "name", kw.name)
    \o When(Truthy(kw.url), "url", kw.url)
    \o When(~Is(kw.track, s_both_tracks), "track", kw.track)
    \o KwargsSets(kw.kwargs)

(***************************************************************************)
(* Keyword arguments: each builder's parameters with the defaults of its   *)
(* signature; a required positional parameter holds a sample value.        *)
(***************************************************************************)
s_hi == <<"h", "i">>
s_lt == <<"<">>
s_amp_lt == <<"&", "l", "t", ";">>
s_url == <<"/", "u">>
s_num == <<"+", "1">>
s_hash == <<"#">>
s_q == <<"q">>

say_defaults ==
    [message |-> PyS(s_hi), voice |-> PyNone, language |-> PyNone,
     loop |-> PyInt(1)]

play_defaults == [url |-> PyNone, loop |-> PyInt(1), digits |-> PyNone]

gather_defaults ==
    [input |-> PyNone, action |-> PyNone, method |-> PyS(POST),
     timeout |-> PyInt(5), finish_on_key |-> PyNone, num_digits |-> PyNone,
     partial_result_callback |-> PyNone,
     partial_result_callback_method |-> PyS(POST),
     language |-> PyS(s_en_US), hints |-> PyNone, barge_in |-> PyNone,
     debug |-> PyNone, action_on_empty_result |-> PyNone,
     speech_timeout |-> PyS(s_auto), enhanced |-> PyNone,
     speech_model |-> PyNone, profanity_filter |-> PyNone]

record_defaults ==
    [action |-> PyNone, method |-> PyS(POST), timeout |-> PyInt(5),
     finish_on_key |-> PyS(s_finish_keys), max_length |-> PyInt(3600),
     play_beep |-> PyBool(TRUE), trim |-> PyS(s_trim_silence),
     recording_status_callback |-> PyNone,
     recording_status_callback_method |-> PyS(POST),
     recording_status_callback_event |-> PyNone,
     transcribe |-> PyBool(FALSE), transcribe_callback |-> PyNone]

dial_defaults ==
    [number |-> PyNone, action |-> PyNone, method |-> PyS(POST),
     timeout |-> PyInt(30), hangup_on_star |-> PyBool(FALSE),
     time_limit |-> PyInt(14400), caller_id |-> PyNone, record |-> PyNone,
     trim |-> PyS(s_trim_silence), recording_status_callback |-> PyNone,
     recording_status_callback_method |-> PyS(POST),
     recording_status_callback_event |-> PyNone,
     answer_on_bridge |-> PyBool(FALSE), ring_tone |-> PyNone,
     kwargs |-> <<>>]

redirect_defaults == [url |-> PyS(s_url), method |-> PyS(POST)]

reject_defaults == [reason |-> PyS(s_rejected)]

pause_defaults == [length |-> PyInt(1)]

enqueue_defaults ==
    [name |-> PyNone, action |-> PyNone, method |-> PyS(POST),
     wait_url |-> PyNone, wait_url_method |-> PyS(POST),
     workflow_sid |-> PyNone, kwargs |-> <<>>]

action_method_defaults == [action |-> PyNone, method |-> PyS(POST)]

stop_defaults == [name |-> PyNone]

gather_play_defaults ==
    [url |-> PyS(s_url), loop |-> PyInt(1), digits |-> PyNone]

number_defaults ==
    [phone_number |-> PyS(s_num), send_digits |-> PyNone, url |-> PyNone,
     method |-> PyS(POST), status_callback_event |-> PyNone,
     status_callback |-> PyNone, status_callback_method |-> PyS(POST),
     kwargs |-> <<>>]

sip_defaults ==
    [sip_url |-> PyS(s_url), username |-> PyNone, password |-> PyNone,
     kwargs |-> <<>>]

client_defaults ==
    [client_name |-> PyS(s_q), url |-> PyNone, method |-> PyS(POST),
     kwargs |-> <<>>]

conference_defaults ==
    [name |-> PyS(s_q), muted |-> PyBool(FALSE), beep |-> PyBool(TRUE),
     start_conference_on_enter |-> PyBool(TRUE),
     end_conference_on_exit |-> PyBool(FALSE), wait_url |-> PyNone,
     wait_method |-> PyS(POST), max_participants |-> PyNone,
     record |-> PyNone, region |-> PyNone, whisper |-> PyNone,
     trim |-> PyS(s_trim_silence), status_callback_event |-> PyNone,
     status_callback |-> PyNone, status_callback_method |-> PyS(POST),
     recording_channels |-> PyNone, recording_status_callback |-> PyNone,
     recording_status_callback_method |-> PyS(POST), coaching |-> PyNone,
     call_sid_to_coach |-> PyNone, kwargs |-> <<>>]

queue_defaults ==
    [name |-> PyS(s_q), url |-> PyNone, method |-> PyS(POST),
     reservation_sid |-> PyNone, post_work_activity_sid |-> PyNone,
     kwargs |-> <<>>]

sim_defaults == [sim_sid |-> PyS(s_q)]

refer_sip_defaults == [sip_url |-> PyS(s_url)]

start_stream_defaults ==
    [name |-> PyNone, connector_name |-> PyNone, url |-> PyNone,
     track |-> PyS(s_both_tracks), status_callback |-> PyNone,
     status_callback_method |-> PyS(POST), kwargs |-> <<>>]

connect_stream_defaults ==
    [name |-> PyNone, url |-> PyNone, track |-> PyS(s_both_tracks),
     kwargs |-> <<>>]

\* The calls of one builder that the model makes: the call with the
\* defaults, and each call that differs from it in one argument.
Vary(defaults, overrides) ==
    {defaults} \cup {[defaults EXCEPT ![o[1]] = o[2]] : o \in overrides}

SayCalls ==
    Vary(say_defaults,
         {<<"loop", PyInt(3)>>, <<"message", PyS(s_lt)>>,
          <<"message", PyS(s_amp_lt)>>})
PlayCalls == Vary(play_defaults, {<<"url", PyS(s_url)>>})
GatherCalls ==
    Vary(gather_defaults,
         {<<"finish_on_key", PyS(s_hash)>>, <<"method", PyS(GET)>>})
RecordCalls == Vary(record_defaults, {})
DialCalls ==
    Vary(dial_defaults,
         {<<"method", PyS(GET)>>, <<"number", PyS(s_num)>>,
          <<"number", PyS(<<>>)>>})
RedirectCalls == Vary(redirect_defaults, {})
RejectCalls == Vary(reject_defaults, {})
PauseCalls == Vary(pause_defaults, {})
EnqueueCalls == Vary(enqueue_defaults, {<<"name", PyS(s_q)>>})
ReferCalls == Vary(action_method_defaults, {})
StopCalls == Vary(stop_defaults, {})
ConnectCalls == Vary(action_method_defaults, {})
GatherSayCalls == Vary(say_defaults, {<<"loop", PyInt(3)>>})
GatherPlayCalls == Vary(gather_play_defaults, {})
NumberCalls == Vary(number_defaults, {<<"phone_number", PyS(<<>>)>>})
SipCalls == Vary(sip_defaults, {})
ClientCalls == Vary(client_defaults, {})
ConferenceCalls == Vary(conference_defaults, {})
QueueCalls == Vary(queue_defaults, {})
SimCalls == Vary(sim_defaults, {<<"sim_sid", PyS(<<>>)>>})
ReferSipCalls == Vary(refer_sip_defaults, {})
StartStreamCalls == Vary(start_stream_defaults, {})
ConnectStreamCalls == Vary(connect_stream_defaults, {})
PlayUrls == {PyS(s_url), PyS(<<>>)}

(***************************************************************************)
(* The builders.  Every verb and noun method makes its element with        *)
(* SubElement on the element it builds into, sets the attributes and the   *)
(* text, and returns self or a scoped builder.                             *)
(***************************************************************************)
Idle == loop = <<>>

\* The history of a call made on the builder of element c.
Logged(c, op, kw) ==
    IF born[c].r = 0 THEN calls
    ELSE [calls EXCEPT ![born[c].r] =
             Append(@, [op |-> op, on |-> born[c].k, kw |-> kw])]

BornIn(c) ==
    [by |-> c, r |-> born[c].r,
     k |-> IF born[c].r = 0 THEN 0 ELSE Len(calls[born[c].r]) + 1]

\* elem = SubElement(c, tag); elem.set(...) for each of sets; elem.text =
\* text (PyNone where the body leaves the text alone).
Build(es, c, tag, sets, text) ==
    [SubElement(es, c, tag) EXCEPT ![Len(es) + 1].attrib = SetAll(<<>>, sets),
                                   ![Len(es) + 1].text = text]

\* One builder call that makes one element in c.
Create(c, tag, sets, text, op, kw, ret) ==
    /\ Idle
    /\ elems' = Build(elems, c, tag, sets, text)
    /\ born' = Append(born, BornIn(c))
    /\ calls' = Append(Logged(c, op, kw), <<>>)
    /\ last' = [op |-> op, on |-> c, kw |-> kw, node |-> Len(elems) + 1,
                ret |-> ret]
    /\ ncalls' = ncalls + 1
    /\ UNCHANGED <<responses, loop>>

Wrapper(cls, n) == [cls |-> cls, elem |-> n]

NewElem == Len(elems) + 1

\* VoiceResponse.__init__ / TwiML.__init__: self.root = Element('Response')
VoiceResponse_init ==
    /\ Idle
    /\ elems' = Append(elems, Element("Response"))
    /\ responses' = responses \cup {NewElem}
    /\ born' = Append(born, [by |-> 0, r |-> NewElem, k |-> 0])
    /\ calls' = Append(calls, <<>>)
    /\ last' = [op |-> "VoiceResponse", on |-> NewElem, kw |-> PyNone,
                node |-> NewElem, ret |-> "self"]
    /\ ncalls' = ncalls + 1
    /\ UNCHANGED <<wrappers, loop>>

VoiceResponse_say(r, kw) ==
    /\ Create(r, "Say", say_sets(kw), StrOf(kw.message), "say", kw, "self")
    /\ UNCHANGED wrappers

\* With a url the text is set and self returned; without, a Play builder.
VoiceResponse_play(r, kw) ==
    /\ Create(r, "Play", play_sets(kw),
              IF Truthy(kw.url) THEN kw.url ELSE PyNone, "play", kw,
              IF Truthy(kw.url) THEN "self" ELSE "Play")
    /\ wrappers' = IF Truthy(kw.url) THEN wrappers
                   ELSE wrappers \cup {Wrapper("Play", NewElem)}

VoiceResponse_gather(r, kw) ==
    /\ Create(r, "Gather", gather_sets(kw), PyNone, "gather", kw, "Gather")
    /\ wrappers' = wrappers \cup {Wrapper("Gather", NewElem)}

VoiceResponse_record(r, kw) ==
    /\ Create(r, "Record", record_sets(kw), PyNone, "record", kw, "self")
    /\ UNCHANGED wrappers

\* Dial.number: the Number element, its text the phone number as given.
Dial_number_elems(es, d, kw) ==
    Build(es, d, "Number", number_sets(kw), kw.phone_number)

\* The Dial element; `if number: dial_obj.number(number)` adds a Number.
VoiceResponse_dial(r, kw) ==
    LET es1 == Build(elems, r, "Dial", dial_sets(kw), PyNone)
        d == NewElem
        inner == [number_defaults EXCEPT !.phone_number = kw.number]
    IN /\ Idle
       /\ elems' = IF Truthy(kw.number) THEN Dial_number_elems(es1, d, inner)
                   ELSE es1
       /\ born' = IF Truthy(kw.number)
                  THEN born \o <<BornIn(r), [BornIn(r) EXCEPT !.by = d]>>
                  ELSE Append(born, BornIn(r))
       /\ calls' = Logged(r, "dial", kw)
                   \o (IF Truthy(kw.number) THEN <<<<>>, <<>>>> ELSE <<<<>>>>)
       /\ wrappers' = wrappers \cup {Wrapper("Dial", d)}
       /\ last' = [op |-> "dial", on |-> r, kw |-> kw, node |-> d,
                   ret |-> "Dial"]
       /\ ncalls' = ncalls + 1
       /\ UNCHANGED <<responses, loop>>

VoiceResponse_hangup(r) ==
    /\ Create(r, "Hangup", <<>>, PyNone, "hangup", PyNone, "self")
    /\ UNCHANGED wrappers

VoiceResponse_redirect(r, kw) ==
    /\ Create(r, "Redirect", redirect_sets(kw), kw.url, "redirect", kw, "self")
    /\ UNCHANGED wrappers

VoiceResponse_reject(r, kw) ==
    /\ Create(r, "Reject", reject_sets(kw), PyNone, "reject", kw, "self")
    /\ UNCHANGED wrappers

VoiceResponse_pause(r, kw) ==
    /\ Create(r, "Pause", pause_sets(kw), PyNone, "pause", kw, "self")
    /\ UNCHANGED wrappers

\* With a name the text is set and self returned; without, an Enqueue
\* builder.
VoiceResponse_enqueue(r, kw) ==
    /\ Create(r, "Enqueue", enqueue_sets(kw),
              IF Truthy(kw.name) THEN kw.name ELSE PyNone, "enqueue", kw,
              IF Truthy(kw.name) THEN "self" ELSE "Enqueue")
    /\ wrappers' = IF Truthy(kw.name) THEN wrappers
                   ELSE wrappers \cup {Wrapper("Enqueue", NewElem)}

VoiceResponse_leave(r) ==
    /\ Create(r, "Leave", <<>>, PyNone, "leave", PyNone, "self")
    /\ UNCHANGED wrappers

VoiceResponse_refer(r, kw) ==
    /\ Create(r, "Refer", action_method_sets(kw), PyNone, "refer", kw, "Refer")
    /\ wrappers' = wrappers \cup {Wrapper("Refer", NewElem)}

VoiceResponse_start(r) ==
    /\ Create(r, "Start", <<>>, PyNone, "start", PyNone, "Start")
    /\ wrappers' = wrappers \cup {Wrapper("Start", NewElem)}

VoiceResponse_stop(r, kw) ==
    /\ Create(r, "Stop", <<>>, IF Truthy(kw.name) THEN kw.name ELSE PyNone,
              "stop", kw, "self")
    /\ UNCHANGED wrappers

VoiceResponse_connect(r, kw) ==
    /\ Create(r, "Connect", action_method_sets(kw), PyNone, "connect", kw,
              "Connect")
    /\ wrappers' = wrappers \cup {Wrapper("Connect", NewElem)}

VoiceResponse_echo(r) ==
    /\ Create(r, "Echo", <<>>, PyNone, "echo", PyNone, "self")
    /\ UNCHANGED wrappers

(***************************************************************************)
(* The scoped builders: Gather, Play, Dial, Enqueue, Refer, Start, Connect *)
(***************************************************************************)
\* Gather(None): a Gather builder made directly, on an Element('Gather') of
\* its own (no keyword arguments are given, so no attribute is set).
Gather_init ==
    /\ Idle
    /\ elems' = Append(elems, Element("Gather"))
    /\ born' = Append(born, [by |-> 0, r |-> 0, k |-> 0])
    /\ calls' = Append(calls, <<>>)
    /\ wrappers' = wrappers \cup {Wrapper("Gather", NewElem)}
    /\ last' = [op |-> "Gather", on |-> NewElem, kw |-> PyNone,
                node |-> NewElem, ret |-> "Gather"]
    /\ ncalls' = ncalls + 1
    /\ UNCHANGED <<responses, loop>>

Gather_say(w, kw) ==
    /\ w.cls = "Gather"
    /\ Create(w.elem, "Say", say_sets(kw), StrOf(kw.message), "Gather.say",
              kw, "self")
    /\ UNCHANGED wrappers

Gather_play(w, kw) ==
    /\ w.cls = "Gather"
    /\ Create(w.elem, "Play", play_sets(kw), kw.url, "Gather.play", kw, "self")
    /\ UNCHANGED wrappers

Gather_pause(w, kw) ==
    /\ w.cls = "Gather"
    /\ Create(w.elem, "Pause", pause_sets(kw), PyNone, "Gather.pause", kw,
              "self")
    /\ UNCHANGED wrappers

\* Play.__call__: self.elem.text = url
Play_call(w, url) ==
    /\ w.cls = "Play"
    /\ Idle
    /\ elems' = [elems EXCEPT ![w.elem].text = url]
    /\ calls' = Logged(w.elem, "Play.__call__", url)
    /\ last' = [op |-> "Play.__call__", on |-> w.elem, kw |-> url,
                node |-> w.elem, ret |-> "None"]
    /\ ncalls' = ncalls + 1
    /\ UNCHANGED <<responses, wrappers, loop, born>>

Dial_number(w, kw) ==
    /\ w.cls = "Dial"
    /\ Idle
    /\ elems' = Dial_number_elems(elems, w.elem, kw)
    /\ born' = Append(born, BornIn(w.elem))
    /\ calls' = Append(Logged(w.elem, "Dial.number", kw), <<>>)
    /\ last' = [op |-> "Dial.number", on |-> w.elem, kw |-> kw,
                node |-> NewElem, ret |-> "self"]
    /\ ncalls' = ncalls + 1
    /\ UNCHANGED <<responses, wrappers, loop>>

Dial_sip(w, kw) ==
    /\ w.cls = "Dial"
    /\ Create(w.elem, "Sip", sip_sets(kw), kw.sip_url, "Dial.sip", kw, "self")
    /\ UNCHANGED wrappers

Dial_client(w, kw) ==
    /\ w.cls = "Dial"
    /\ Create(w.elem, "Client", client_sets(kw), kw.client_name, "Dial.client",
              kw, "self")
    /\ UNCHANGED wrappers

Dial_conference(w, kw) ==
    /\ w.cls = "Dial"
    /\ Create(w.elem, "Conference", conference_sets(kw), kw.name,
              "Dial.conference", kw, "self")
    /\ UNCHANGED wrappers

Dial_queue(w, kw) ==
    /\ w.cls = "Dial"
    /\ Create(w.elem, "Queue", queue_sets(kw), kw.name, "Dial.queue", kw,
              "self")
    /\ UNCHANGED wrappers

Dial_sim(w, kw) ==
    /\ w.cls = "Dial"
    /\ Create(w.elem, "Sim", <<>>, kw.sim_sid, "Dial.sim", kw, "self")
    /\ UNCHANGED wrappers

\* Enqueue.task(**attributes): the Task element is made first; the loop
\* then reaches json.dumps at the first attribute that is not None, and the
\* module does not import json, so the call raises NameError there.
Enqueue_task(w, attributes) ==
    LET raises == \E i \in 1..Len(attributes) : attributes[i][2].t # "None"
    IN /\ w.cls = "Enqueue"
       /\ Create(w.elem, "Task", <<>>, PyNone, "Enqueue.task", attributes,
                 IF raises THEN "NameError" ELSE "self")
       /\ UNCHANGED wrappers

Refer_sip(w, kw) ==
    /\ w.cls = "Refer"
    /\ Create(w.elem, "Sip", <<>>, kw.sip_url, "Refer.sip", kw, "self")
    /\ UNCHANGED wrappers

Start_stream(w, kw) ==
    /\ w.cls = "Start"
    /\ Create(w.elem, "Stream", start_stream_sets(kw), PyNone, "Start.stream",
              kw, "self")
    /\ UNCHANGED wrappers

Connect_stream(w, kw) ==
    /\ w.cls = "Connect"
    /\ Create(w.elem, "Stream", connect_stream_sets(kw), PyNone,
              "Connect.stream", kw, "self")
    /\ UNCHANGED wrappers

TaskAttributes ==
    {<<>>, << <<"a", PyInt(1)>> >>, << <<"a", PyNone>> >>}

(***************************************************************************)
(* append, and the XML parser it uses for a str argument.  An XML string   *)
(* is given as its sequence of tokens: start tags, end tags, empty-element *)
(* tags and character data.                                                *)
(***************************************************************************)
Open(tag) == [k |-> "open", tag |-> tag, s |-> <<>>]
Close(tag) == [k |-> "close", tag |-> tag, s |-> <<>>]
Empty(tag) == [k |-> "empty", tag |-> tag, s |-> <<>>]
Text(s) == [k |-> "text", tag |-> "", s |-> s]

AddText(old, s) == IF old.t = "None" THEN PyS(s) ELSE PyS(old.v \o s)

RECURSIVE ParseXml(_, _, _, _)
\* fromstring("<root>" + string + "</root>"), from inside the wrapper
\* element: es the heap, stack the elements still open, top the children
\* of the wrapper so far.  Character data before the first child of an
\* element is its text, after a child that child's tail.  The result is
\* [ok, es, top]; ok is FALSE where fromstring raises ParseError.
ParseXml(es, toks, stack, top) ==
    IF Len(toks) = 0 THEN [ok |-> stack = <<>>, es |-> es, top |-> top]
    ELSE
      LET t == toks[1]
          n == Len(es) + 1
          parent == IF stack = <<>> THEN 0 ELSE stack[Len(stack)]
          sibs == IF parent = 0 THEN top ELSE es[parent].children
          made == IF parent = 0 THEN Append(es, Element(t.tag))
                  ELSE ElemAppend(Append(es, Element(t.tag)), parent, n)
          top2 == IF parent = 0 THEN Append(top, n) ELSE top
      IN CASE t.k = "open" ->
                ParseXml(made, Tail(toks), Append(stack, n), top2)
           [] t.k = "empty" -> ParseXml(made, Tail(toks), stack, top2)
           [] t.k = "close" ->
                IF parent # 0 /\ es[parent].tag = t.tag
                THEN ParseXml(es, Tail(toks),
                              SubSeq(stack, 1, Len(stack) - 1), top)
                ELSE [ok |-> FALSE, es |-> es, top |-> top]
           [] OTHER ->
                IF Len(sibs) > 0
                THEN ParseXml([es EXCEPT ![sibs[Len(sibs)]].tail =
                                  AddText(@, t.s)],
                              Tail(toks), stack, top)
                ELSE IF parent = 0 THEN ParseXml(es, Tail(toks), stack, top)
                ELSE ParseXml([es EXCEPT ![parent].text = AddText(@, t.s)],
                              Tail(toks), stack, top)

fromstring(es, toks) == ParseXml(es, toks, <<>>, <<>>)

RECURSIVE AppendAll(_, _, _)
\* `for child in elem: self.root.append(child)`, elem a parsed element.
AppendAll(es, dst, ch) ==
    IF Len(ch) = 0 THEN es
    ELSE AppendAll(ElemAppend(es, dst, ch[1]), dst, Tail(ch))

\* The XML strings given to append.
XmlStrings ==
    {<<Open("Number"), Text(s_num), Close("Number")>>,
     <<Open("Say"), Text(s_hi), Close("Say")>>,
     <<Open("Gather"), Empty("Gather"), Close("Gather")>>,
     <<Empty("Hangup"), Text(s_q)>>,
     <<Open("Say"), Text(s_hi)>>}

\* What append may be given: a TwiML object, a scoped builder, a str.
AppendArgs ==
    {[kind |-> "TwiML", root |-> r] : r \in responses}
    \cup {[kind |-> "builder", w |-> w] : w \in wrappers}
    \cup {[kind |-> "str", toks |-> x] : x \in XmlStrings}

\* The attribute of the argument that append's hasattr chain finds first.
AppendBranch(twiml) ==
    CASE twiml.kind = "TwiML" -> "root"
      [] twiml.kind = "builder" /\ twiml.w.cls = "Gather" -> "gather_element"
      [] twiml.kind = "builder" /\ twiml.w.cls = "Dial" -> "dial_element"
      [] twiml.kind = "builder"
           /\ twiml.w.cls \in {"Play", "Enqueue", "Start", "Connect"} -> "elem"
      [] twiml.kind = "str" -> "str"
      [] OTHER -> "none"

\* VoiceResponse.append(twiml).  For a TwiML object the call enters the
\* loop `for child in twiml.root` (AppendNext takes its steps); for a
\* scoped builder its element is appended; for a str the parsed children
\* are appended, and a string that does not parse is passed over.
VoiceResponse_append(r, twiml) ==
    LET b == AppendBranch(twiml)
        parsed == fromstring(elems, twiml.toks)
        es2 == CASE b \in {"gather_element", "dial_element", "elem"} ->
                      ElemAppend(elems, r, twiml.w.elem)
                 [] b = "str" /\ parsed.ok -> AppendAll(parsed.es, r, parsed.top)
                 [] OTHER -> elems
        fresh == Len(es2) - Len(elems)
    IN /\ Idle
       /\ elems' = es2
       /\ born' = born \o [i \in 1..fresh |-> [by |-> 0, r |-> 0, k |-> 0]]
       /\ calls' = Logged(r, "append", twiml) \o [i \in 1..fresh |-> <<>>]
       /\ loop' = IF b = "root"
                  THEN <<[dst |-> r, src |-> twiml.root, i |-> 1]>>
                  ELSE <<>>
       /\ last' = [op |-> "append", on |-> r, kw |-> twiml, node |-> 0,
                   ret |-> IF b = "root" THEN "running" ELSE "self"]
       /\ ncalls' = ncalls + 1
       /\ UNCHANGED <<responses, wrappers>>

\* One step of `for child in twiml.root: self.root.append(child)`: the
\* iteration reads the source's child list by index as it is now, and ends
\* when the index is past its end.
AppendNext ==
    /\ loop # <<>>
    /\ LET l == loop[1] IN
       IF l.i <= Len(elems[l.src].children)
       THEN /\ elems' = ElemAppend(elems, l.dst, elems[l.src].children[l.i])
            /\ loop' = <<[l EXCEPT !.i = @ + 1]>>
            /\ last' = last
       ELSE /\ elems' = elems
            /\ loop' = <<>>
            /\ last' = [last EXCEPT !.ret = "self"]
    /\ UNCHANGED <<responses, wrappers, born, calls, ncalls>>

(***************************************************************************)
(* Serialization and comparison.                                           *)
(***************************************************************************)
\* A serialization that writes the empty text it finds absent.
TwiML_str_elems_fill(es, r) ==
    [es EXCEPT ![r].text = IF @.t = "None" THEN PyS(<<>>) ELSE @]

\* The heap after str(response): tostring reads the elements only.
TwiML_str_elems(es, r) == es

\* str(response) / response.to_xml()
TwiML_to_xml(r) ==
    /\ Idle
    /\ elems' = TwiML_str_elems(elems, r)
    /\ last' = [op |-> "str", on |-> r, kw |-> PyNone, node |-> r,
                ret |-> IF Serializable(elems, r) THEN TwiML_str(elems, r)
                        ELSE "TypeError"]
    /\ UNCHANGED <<responses, wrappers, loop, born, calls, ncalls>>

\* response == other, other a TwiML object
TwiML_eq_call(r1, r2) ==
    /\ Idle
    /\ elems' = TwiML_str_elems(TwiML_str_elems(elems, r1), r2)
    /\ last' = [op |-> "eq", on |-> r1, kw |-> r2, node |-> r1,
                ret |-> IF ~(Serializable(elems, r1) /\ Serializable(elems, r2))
                        THEN "TypeError"
                        ELSE IF TwiML_eq(elems, r1, r2) THEN "True"
                        ELSE "False"]
    /\ UNCHANGED <<responses, wrappers, loop, born, calls, ncalls>>

(***************************************************************************)
(* The event normalizer (webhook_helper.py).  A payload is a dict: a       *)
(* function from its keys to Python values.  A dict held as a value inside *)
(* a payload is [t |-> "dict", v |-> its items in insertion order].  A     *)
(* raised exception is the value [t |-> "raise", v |-> its class].         *)
(***************************************************************************)
PyDict(items) == [t |-> "dict", v |-> items]
Raise(cls) == [t |-> "raise", v |-> cls]

\* d.get(k, dflt) on a payload.
Get(d, k, dflt) == IF k \in DOMAIN d THEN d[k] ELSE dflt

\* x.get(k, dflt) on a value: a dict answers, anything else has no get.
MethodGet(x, k, dflt) ==
    IF x.t # "dict" THEN Raise("AttributeError")
    ELSE IF \E i \in 1..Len(x.v) : x.v[i][1] = k
    THEN x.v[CHOOSE i \in 1..Len(x.v) : x.v[i][1] = k][2]
    ELSE dflt

RECURSIVE OrChain(_)
\* a or b or ... or z: the first truthy operand, else the last one.
OrChain(xs) ==
    IF Len(xs) = 1 \/ Truthy(xs[1]) THEN xs[1] ELSE OrChain(Tail(xs))

UpperChars ==
    <<"A", "B", "C", "D", "E", "F", "G", "H", "I", "J", "K", "L", "M", "N",
      "O", "P", "Q", "R", "S", "T", "U", "V", "W", "X", "Y", "Z">>
LowerChars ==
    <<"a", "b", "c", "d", "e", "f", "g", "h", "i", "j", "k", "l", "m", "n",
      "o", "p", "q", "r", "s", "t", "u", "v", "w", "x", "y", "z">>

\* s translated character by character from the alphabet `from` to `to`.
Translate(s, from, to) ==
    [i \in 1..Len(s) |->
        IF \E j \in 1..26 : from[j] = s[i]
        THEN to[CHOOSE j \in 1..26 : from[j] = s[i]]
        ELSE s[i]]

\* x.lower() and x.upper(): methods of str only.
Lower(x) ==
    IF x.t = "str" THEN PyS(Translate(x.v, UpperChars, LowerChars))
    ELSE Raise("AttributeError")
Upper(s) == Translate(s, LowerChars, UpperChars)

\* sub in s, for str.
Contains(s, sub) ==
    \E i \in 1..(Len(s) - Len(sub) + 1) : SubSeq(s, i, i + Len(sub) - 1) = sub

StartsWith(s, pre) == Len(s) >= Len(pre) /\ SubSeq(s, 1, Len(pre)) = pre

\* c * n for a one-character str c.
Repeat(c, n) == [i \in 1..n |-> c]

IsDigit(c) == \E i \in 1..10 : DigitChars[i] = c

DigitValue(c) == (CHOOSE i \in 1..10 : DigitChars[i] = c) - 1

RECURSIVE Decimal(_)
\* The number a non-empty run of digits spells.
Decimal(s) ==
    IF Len(s) = 0 THEN 0
    ELSE 10 * Decimal(SubSeq(s, 1, Len(s) - 1)) + DigitValue(s[Len(s)])

\* repr(x) for the values of a payload; the str among them hold no quote,
\* backslash or control character.
PyRepr(x) == IF x.t = "str" THEN <<"'">> \o x.v \o <<"'">> ELSE PyStr(x)

RECURSIVE ItemsRepr(_)
ItemsRepr(items) ==
    IF Len(items) = 0 THEN <<>>
    ELSE PyRepr(PyS(items[1][1])) \o <<":", " ">> \o PyRepr(items[1][2])
         \o (IF Len(items) = 1 THEN <<>> ELSE <<",", " ">> \o ItemsRepr(Tail(items)))

\* str(x), dicts of str-keyed scalar items included.
Str(x) == IF x.t = "dict" THEN <<"{">> \o ItemsRepr(x.v) \o <<"}">> ELSE PyStr(x)

\* int(float(x)) as the durations use it: [cls, n] with cls "" when it
\* returns n.  float() reads a sign, digits and a fraction, "inf" and "nan";
\* an int or a bool is converted as it is.
IntOfFloat(x) ==
    LET unsigned(s) ==
            LET dot == IF \E i \in 1..Len(s) : s[i] = "."
                       THEN CHOOSE i \in 1..Len(s) :
                                s[i] = "." /\ \A j \in 1..(i - 1) : s[j] # "."
                       ELSE Len(s) + 1
                whole == SubSeq(s, 1, dot - 1)
                frac == SubSeq(s, dot + 1, Len(s))
                digits(t) == \A i \in 1..Len(t) : IsDigit(t[i])
            IN IF Lower(PyS(s)).v \in {<<"i", "n", "f">>, <<"i", "n", "f", "i", "n", "i", "t", "y">>}
               THEN [cls |-> "OverflowError", n |-> 0]
               ELSE IF digits(whole) /\ digits(frac)
                       /\ Len(whole) + Len(frac) > 0
               THEN [cls |-> "", n |-> Decimal(whole)]
               ELSE [cls |-> "ValueError", n |-> 0]
    IN CASE x.t = "int" -> [cls |-> "", n |-> x.v]
         [] x.t = "bool" -> [cls |-> "", n |-> IF x.v THEN 1 ELSE 0]
         [] x.t = "str" ->
              IF Len(x.v) > 0 /\ x.v[1] = "-"
              THEN [unsigned(Tail(x.v)) EXCEPT !.n = 0 - @]
              ELSE IF Len(x.v) > 0 /\ x.v[1] = "+" THEN unsigned(Tail(x.v))
              ELSE unsigned(x.v)
         [] OTHER -> [cls |-> "TypeError", n |-> 0]

\* extract_call_sid with CallSid asked before callId.
extract_call_sid_canonical_first(data, now, h) ==
    LET call_id == OrChain(<<Get(data, "CallSid", PyNone),
                             Get(data, "callId", PyNone),
                             Get(data, "call_sid", PyNone),
                             Get(data, "sid", PyNone),
                             Get(data, "id", PyS(<<>>))>>)
        hash_part == IntToStr(h % 100000)
        made == <<"C", "A">> \o IntToStr(now)
                \o Repeat("0", 5 - Len(hash_part)) \o hash_part
    IN IF Truthy(call_id)
       THEN IF call_id.t # "str" THEN Raise("AttributeError")
            ELSE IF StartsWith(call_id.v, <<"C", "A">>) THEN call_id
            ELSE IF Len(call_id.v) >= 10 THEN PyS(<<"C", "A">> \o call_id.v)
            ELSE PyS(<<"C", "A">> \o call_id.v \o Repeat("x", 32 - Len(call_id.v)))
       ELSE PyS(SubSeq(made \o Repeat("x", 34 - Len(made)), 1, 34))

\* extract_call_sid; `now` is int(time.time()) and h is hash(str(data)).
extract_call_sid(data, now, h) ==
    LET call_id == OrChain(<<Get(data, "callId", PyNone),
                             Get(data, "CallSid", PyNone),
                             Get(data, "call_sid", PyNone),
                             Get(data, "sid", PyNone),
                             Get(data, "id", PyS(<<>>))>>)
        hash_part == IntToStr(h % 100000)
        made == <<"C", "A">> \o IntToStr(now)
                \o Repeat("0", 5 - Len(hash_part)) \o hash_part
    IN IF Truthy(call_id)
       THEN IF call_id.t # "str" THEN Raise("AttributeError")
            ELSE IF StartsWith(call_id.v, <<"C", "A">>) THEN call_id
            ELSE IF Len(call_id.v) >= 10 THEN PyS(<<"C", "A">> \o call_id.v)
            ELSE PyS(<<"C", "A">> \o call_id.v \o Repeat("x", 32 - Len(call_id.v)))
       ELSE PyS(SubSeq(made \o Repeat("x", 34 - Len(made)), 1, 34))

extract_from_number(data) ==
    OrChain(<<Get(data, "from", PyNone), Get(data, "From", PyNone),
              Get(data, "callerId", PyNone), Get(data, "caller_id", PyNone),
              Get(data, "caller", PyNone), Get(data, "source", PyNone),
              PyS(<<>>)>>)

extract_to_number(data) ==
    OrChain(<<Get(data, "to", PyNone), Get(data, "To", PyNone),
              Get(data, "number", PyNone), Get(data, "called", PyNone),
              Get(data, "destination", PyNone), Get(data, "target", PyNone),
              PyS(<<>>)>>)

event_status_map ==
    {<<<<"c", "a", "l", "l", ".", "i", "n", "i", "t", "i", "a", "t", "e", "d">>, <<"q", "u", "e", "u", "e", "d">>>>, <<<<"c", "a", "l", "l", ".", "q", "u", "e", "u", "e", "d">>, <<"q", "u", "e", "u", "e", "d">>>>,
     <<<<"c", "a", "l", "l", ".", "r", "i", "n", "g", "i", "n", "g">>, <<"r", "i", "n", "g", "i", "n", "g">>>>, <<<<"c", "a", "l", "l", ".", "a", "n", "s", "w", "e", "r", "e", "d">>, <<"i", "n", "-", "p", "r", "o", "g", "r", "e", "s", "s">>>>,
     <<<<"c", "a", "l", "l", ".", "a", "c", "t", "i", "v", "e">>, <<"i", "n", "-", "p", "r", "o", "g", "r", "e", "s", "s">>>>, <<<<"c", "a", "l", "l", ".", "c", "o", "m", "p", "l", "e", "t", "e", "d">>, <<"c", "o", "m", "p", "l", "e", "t", "e", "d">>>>,
     <<<<"c", "a", "l", "l", ".", "e", "n", "d", "e", "d">>, <<"c", "o", "m", "p", "l", "e", "t", "e", "d">>>>, <<<<"c", "a", "l", "l", ".", "f", "a", "i", "l", "e", "d">>, <<"f", "a", "i", "l", "e", "d">>>>,
     <<<<"c", "a", "l", "l", ".", "b", "u", "s", "y">>, <<"b", "u", "s", "y">>>>, <<<<"c", "a", "l", "l", ".", "n", "o", "-", "a", "n", "s", "w", "e", "r">>, <<"n", "o", "-", "a", "n", "s", "w", "e", "r">>>>,
     <<<<"c", "a", "l", "l", ".", "c", "a", "n", "c", "e", "l", "l", "e", "d">>, <<"c", "a", "n", "c", "e", "l", "e", "d">>>>, <<<<"c", "a", "l", "l", ".", "c", "a", "n", "c", "e", "l", "e", "d">>, <<"c", "a", "n", "c", "e", "l", "e", "d">>>>}

status_map ==
    {<<<<"q", "u", "e", "u", "e", "d">>, <<"q", "u", "e", "u", "e", "d">>>>, <<<<"r", "i", "n", "g", "i", "n", "g">>, <<"r", "i", "n", "g", "i", "n", "g">>>>,
     <<<<"a", "n", "s", "w", "e", "r", "e", "d">>, <<"i", "n", "-", "p", "r", "o", "g", "r", "e", "s", "s">>>>, <<<<"i", "n", "-", "p", "r", "o", "g", "r", "e", "s", "s">>, <<"i", "n", "-", "p", "r", "o", "g", "r", "e", "s", "s">>>>,
     <<<<"a", "c", "t", "i", "v", "e">>, <<"i", "n", "-", "p", "r", "o", "g", "r", "e", "s", "s">>>>, <<<<"c", "o", "m", "p", "l", "e", "t", "e", "d">>, <<"c", "o", "m", "p", "l", "e", "t", "e", "d">>>>,
     <<<<"e", "n", "d", "e", "d">>, <<"c", "o", "m", "p", "l", "e", "t", "e", "d">>>>, <<<<"f", "i", "n", "i", "s", "h", "e", "d">>, <<"c", "o", "m", "p", "l", "e", "t", "e", "d">>>>,
     <<<<"f", "a", "i", "l", "e", "d">>, <<"f", "a", "i", "l", "e", "d">>>>, <<<<"e", "r", "r", "o", "r">>, <<"f", "a", "i", "l", "e", "d">>>>, <<<<"b", "u", "s", "y">>, <<"b", "u", "s", "y">>>>,
     <<<<"n", "o", "-", "a", "n", "s", "w", "e", "r">>, <<"n", "o", "-", "a", "n", "s", "w", "e", "r">>>>, <<<<"n", "o", "a", "n", "s", "w", "e", "r">>, <<"n", "o", "-", "a", "n", "s", "w", "e", "r">>>>,
     <<<<"c", "a", "n", "c", "e", "l", "l", "e", "d">>, <<"c", "a", "n", "c", "e", "l", "e", "d">>>>, <<<<"c", "a", "n", "c", "e", "l", "e", "d">>, <<"c", "a", "n", "c", "e", "l", "e", "d">>>>}

\* k in table, and table[k] or dflt, for a dict literal of the code.
InTable(table, k) == \E p \in table : p[1] = k
Lookup(table, k, dflt) ==
    IF InTable(table, k) THEN (CHOOSE p \in table : p[1] = k)[2] ELSE dflt

\* The event type the add_* functions read:
\* (data.get('event', '') or data.get('Event', '')).lower()
event_type(data) ==
    Lower(OrChain(<<Get(data, "event", PyS(<<>>)),
                    Get(data, "Event", PyS(<<>>))>>))

\* map_call_status with a status outside the table handed on as it is.
map_call_status_passing(data) ==
    LET status == Lower(OrChain(<<Get(data, "status", PyS(<<>>)),
                                  Get(data, "CallStatus", PyS(<<>>)),
                                  Get(data, "call_status", PyS(<<>>)),
                                  Get(data, "state", PyS(<<>>))>>))
        event == event_type(data)
    IN IF status.t = "raise" THEN status
       ELSE IF event.t = "raise" THEN event
       ELSE IF Truthy(event) /\ InTable(event_status_map, event.v)
       THEN PyS(Lookup(event_status_map, event.v, <<>>))
       ELSE PyS(Lookup(status_map, status.v, status.v))

map_call_status(data) ==
    LET status == Lower(OrChain(<<Get(data, "status", PyS(<<>>)),
                                  Get(data, "CallStatus", PyS(<<>>)),
                                  Get(data, "call_status", PyS(<<>>)),
                                  Get(data, "state", PyS(<<>>))>>))
        event == event_type(data)
    IN IF status.t = "raise" THEN status
       ELSE IF event.t = "raise" THEN event
       ELSE IF Truthy(event) /\ InTable(event_status_map, event.v)
       THEN PyS(Lookup(event_status_map, event.v, <<>>))
       ELSE PyS(Lookup(status_map, status.v, <<"i", "n", "-", "p", "r", "o", "g", "r", "e", "s", "s">>))

\* format_phone_number with a ten-digit number given its country code
\* without the sign.
format_phone_number_country_only(number) ==
    IF ~Truthy(number) THEN PyS(<<>>)
    ELSE LET clean == SelectSeq(Str(number),
                                LAMBDA c : IsDigit(c) \/ c = "+")
         IN IF Len(clean) > 0 /\ ~StartsWith(clean, <<"+">>)
            THEN IF StartsWith(clean, <<"1">>) /\ Len(clean) = 11
                 THEN PyS(<<"+">> \o clean)
                 ELSE IF Len(clean) = 10 THEN PyS(<<"1">> \o clean)
                 ELSE IF Len(clean) > 10 THEN PyS(<<"+">> \o clean)
                 ELSE PyS(clean)
            ELSE PyS(clean)

format_phone_number(number) ==
    IF ~Truthy(number) THEN PyS(<<>>)
    ELSE LET clean == SelectSeq(Str(number),
                                LAMBDA c : IsDigit(c) \/ c = "+")
         IN IF Len(clean) > 0 /\ ~StartsWith(clean, <<"+">>)
            THEN IF StartsWith(clean, <<"1">>) /\ Len(clean) = 11
                 THEN PyS(<<"+">> \o clean)
                 ELSE IF Len(clean) = 10 THEN PyS(<<"+", "1">> \o clean)
                 ELSE IF Len(clean) > 10 THEN PyS(<<"+">> \o clean)
                 ELSE PyS(clean)
            ELSE PyS(clean)

extract_call_duration(data) ==
    LET duration == OrChain(<<Get(data, "duration", PyNone),
                              Get(data, "CallDuration", PyNone),
                              Get(data, "call_duration", PyNone),
                              Get(data, "seconds", PyNone), PyInt(0)>>)
        n == IntOfFloat(duration)
    IN IF n.cls = "" THEN PyS(IntToStr(n.n))
       ELSE IF n.cls \in {"ValueError", "TypeError"} THEN PyS(<<>>)
       ELSE Raise(n.cls)

extract_duration_minutes(data) ==
    LET duration_seconds == extract_call_duration(data)
    IN IF duration_seconds.t = "raise" THEN duration_seconds
       ELSE IF Truthy(duration_seconds)
       THEN PyS(IntToStr(IntOfFloat(duration_seconds).n \div 60))
       ELSE PyS(<<>>)

\* A parameter map under construction, or the exception that ended it.
Map(m) == [t |-> "map", v |-> m]

\* {k: v for k, v in m.items() if v and v not in drop}, drop a list of str.
Keep(m, drop) ==
    [k \in {k \in DOMAIN m :
                Truthy(m[k]) /\ ~(m[k].t = "str" /\ m[k].v \in drop)}
        |-> m[k]]

\* twilio_format.update(m)
Update(twilio_format, m) == m @@ twilio_format

\* The first raised exception among xs, in evaluation order, else None.
FirstRaise(xs) ==
    IF \E i \in 1..Len(xs) : xs[i].t = "raise"
    THEN xs[CHOOSE i \in 1..Len(xs) :
                xs[i].t = "raise" /\ \A j \in 1..(i - 1) : xs[j].t # "raise"]
    ELSE PyNone

add_geographic_params(twilio_format, data) ==
    LET geo_data == OrChain(<<Get(data, "geography", PyDict(<<>>)),
                              Get(data, "geo", PyDict(<<>>))>>)
        geo(camel, pascal, dflt) ==
            MethodGet(geo_data, camel,
                      Get(data, camel, Get(data, pascal, dflt)))
        all_geo ==
            [FromCity |-> geo("fromCity", "FromCity", PyS(<<>>)),
             FromState |-> geo("fromState", "FromState", PyS(<<>>)),
             FromZip |-> geo("fromZip", "FromZip", PyS(<<>>)),
             FromCountry |-> geo("fromCountry", "FromCountry", PyS(<<"U", "S">>)),
             ToCity |-> geo("toCity", "ToCity", PyS(<<>>)),
             ToState |-> geo("toState", "ToState", PyS(<<>>)),
             ToZip |-> geo("toZip", "ToZip", PyS(<<>>)),
             ToCountry |-> geo("toCountry", "ToCountry", PyS(<<"U", "S">>))]
    IN IF geo_data.t # "dict" THEN Raise("AttributeError")
       ELSE Map(Update(twilio_format, Keep(all_geo, {})))

amd_mapping ==
    {<<<<"H", "U", "M", "A", "N">>, <<"h", "u", "m", "a", "n">>>>, <<<<"P", "E", "R", "S", "O", "N">>, <<"h", "u", "m", "a", "n">>>>,
     <<<<"M", "A", "C", "H", "I", "N", "E">>, <<"m", "a", "c", "h", "i", "n", "e">>>>, <<<<"V", "O", "I", "C", "E", "M", "A", "I", "L">>, <<"m", "a", "c", "h", "i", "n", "e">>>>,
     <<<<"F", "A", "X">>, <<"f", "a", "x">>>>, <<<<"N", "O", "T", "S", "U", "R", "E">>, <<"h", "u", "m", "a", "n">>>>, <<<<"N", "O", "T", "_", "S", "U", "R", "E">>, <<"h", "u", "m", "a", "n">>>>,
     <<<<"U", "N", "K", "N", "O", "W", "N">>, <<"u", "n", "k", "n", "o", "w", "n">>>>, <<<<"U", "N", "C", "L", "E", "A", "R">>, <<"u", "n", "k", "n", "o", "w", "n">>>>}

add_amd_params(twilio_format, data) ==
    LET amd_data == OrChain(<<Get(data, "amd", PyDict(<<>>)), PyDict(<<>>)>>)
        answered_by == OrChain(<<Get(data, "AnsweredBy", PyNone),
                                 Get(data, "answeredBy", PyNone),
                                 Get(data, "answered_by", PyNone)>>)
        status == Upper(Str(MethodGet(amd_data, "status", PyS(<<>>))))
        confidence == MethodGet(amd_data, "confidence",
                                MethodGet(amd_data, "score", PyNone))
        mapped == ("AnsweredBy" :> PyS(Lookup(amd_mapping, status, <<>>)))
                  @@ twilio_format
    IN IF Truthy(answered_by)
       THEN Map(("AnsweredBy" :> answered_by) @@ twilio_format)
       ELSE IF ~Truthy(amd_data) THEN Map(twilio_format)
       ELSE IF amd_data.t # "dict" THEN Raise("AttributeError")
       ELSE IF ~InTable(amd_mapping, status) THEN Map(twilio_format)
       ELSE IF confidence.t = "None" THEN Map(mapped)
       ELSE Map(("MachineDetectionConfidence" :> PyS(Str(confidence)))
                @@ mapped)

\* add_event_specific_params with the speech result added for every event.
add_event_specific_params_speech(twilio_format, data) ==
    LET ev == event_type(data)
        dtmf == OrChain(<<Get(data, "digit", PyNone),
                          Get(data, "digits", PyNone),
                          Get(data, "Digits", PyNone),
                          Get(data, "dtmf", PyNone), PyS(<<>>)>>)
        gathered == OrChain(<<Get(data, "digits", PyNone),
                              Get(data, "Digits", PyNone),
                              Get(data, "input", PyNone),
                              Get(data, "result", PyNone), PyS(<<>>)>>)
        generic == OrChain(<<Get(data, "Digits", PyNone),
                             Get(data, "digits", PyNone),
                             Get(data, "digit", PyNone),
                             Get(data, "input", PyNone)>>)
        speech_result == OrChain(<<Get(data, "speechResult", PyNone),
                                   Get(data, "SpeechResult", PyNone),
                                   Get(data, "speech_result", PyNone),
                                   Get(data, "transcript", PyNone)>>)
        confidence == OrChain(<<Get(data, "confidence", PyNone),
                                Get(data, "Confidence", PyNone),
                                Get(data, "speech_confidence", PyNone)>>)
        digits(d) == IF Truthy(d) THEN "Digits" :> PyS(Str(d)) ELSE <<>>
        timeout == IF Lower(gathered).v = <<"t", "i", "m", "e", "o", "u", "t">>
                   THEN "Digits" :> PyS(<<"T", "I", "M", "E", "O", "U", "T">>)
                   ELSE digits(gathered)
        speech == IF ~Truthy(speech_result) THEN <<>>
                  ELSE ("SpeechResult" :> PyS(Str(speech_result)))
                       @@ (IF confidence.t = "None" THEN <<>>
                           ELSE "Confidence" :> PyS(Str(confidence)))
    IN IF ev.t = "raise" THEN ev
       ELSE IF Contains(ev.v, <<"d", "t", "m", "f">>) \/ Contains(ev.v, <<"d", "i", "g", "i", "t">>)
       THEN Map(speech @@ digits(dtmf) @@ twilio_format)
       ELSE IF Contains(ev.v, <<"g", "a", "t", "h", "e", "r">>)
       THEN IF Truthy(gathered) /\ gathered.t # "str"
            THEN Raise("AttributeError")
            ELSE Map(speech @@ (IF Truthy(gathered) THEN timeout ELSE <<>>)
                     @@ twilio_format)
       ELSE IF ~Truthy(Get(twilio_format, "Digits", PyNone))
       THEN Map(speech @@ digits(generic) @@ twilio_format)
       ELSE Map(speech @@ twilio_format)

add_event_specific_params(twilio_format, data) ==
    LET ev == event_type(data)
        dtmf == OrChain(<<Get(data, "digit", PyNone),
                          Get(data, "digits", PyNone),
                          Get(data, "Digits", PyNone),
                          Get(data, "dtmf", PyNone), PyS(<<>>)>>)
        gathered == OrChain(<<Get(data, "digits", PyNone),
                              Get(data, "Digits", PyNone),
                              Get(data, "input", PyNone),
                              Get(data, "result", PyNone), PyS(<<>>)>>)
        generic == OrChain(<<Get(data, "Digits", PyNone),
                             Get(data, "digits", PyNone),
                             Get(data, "digit", PyNone),
                             Get(data, "input", PyNone)>>)
        speech_result == OrChain(<<Get(data, "speechResult", PyNone),
                                   Get(data, "SpeechResult", PyNone),
                                   Get(data, "speech_result", PyNone),
                                   Get(data, "transcript", PyNone)>>)
        confidence == OrChain(<<Get(data, "confidence", PyNone),
                                Get(data, "Confidence", PyNone),
                                Get(data, "speech_confidence", PyNone)>>)
        digits(d) == IF Truthy(d) THEN "Digits" :> PyS(Str(d)) ELSE <<>>
        timeout == IF Lower(gathered).v = <<"t", "i", "m", "e", "o", "u", "t">>
                   THEN "Digits" :> PyS(<<"T", "I", "M", "E", "O", "U", "T">>)
                   ELSE digits(gathered)
        speech == IF ~Truthy(speech_result) THEN <<>>
                  ELSE ("SpeechResult" :> PyS(Str(speech_result)))
                       @@ (IF confidence.t = "None" THEN <<>>
                           ELSE "Confidence" :> PyS(Str(confidence)))
    IN IF ev.t = "raise" THEN ev
       ELSE IF Contains(ev.v, <<"d", "t", "m", "f">>) \/ Contains(ev.v, <<"d", "i", "g", "i", "t">>)
       THEN Map(digits(dtmf) @@ twilio_format)
       ELSE IF Contains(ev.v, <<"g", "a", "t", "h", "e", "r">>)
       THEN IF Truthy(gathered) /\ gathered.t # "str"
            THEN Raise("AttributeError")
            ELSE Map(speech @@ (IF Truthy(gathered) THEN timeout ELSE <<>>)
                     @@ twilio_format)
       ELSE IF ~Truthy(Get(twilio_format, "Digits", PyNone))
       THEN Map(digits(generic) @@ twilio_format)
       ELSE Map(twilio_format)

DayNames == <<<<"S", "u", "n">>, <<"M", "o", "n">>, <<"T", "u", "e">>, <<"W", "e", "d">>, <<"T", "h", "u">>, <<"F", "r", "i">>, <<"S", "a", "t">>>>
MonthNames ==
    <<<<"J", "a", "n">>, <<"F", "e", "b">>, <<"M", "a", "r">>, <<"A", "p", "r">>, <<"M", "a", "y">>, <<"J", "u", "n">>, <<"J", "u", "l">>, <<"A", "u", "g">>, <<"S", "e", "p">>,
      <<"O", "c", "t">>, <<"N", "o", "v">>, <<"D", "e", "c">>>>

\* The days from 1970-01-01 to the civil date y-m-d.
DaysFromCivil(y, m, d) ==
    LET yy == IF m <= 2 THEN y - 1 ELSE y
        era == yy \div 400
        yoe == yy - era * 400
        doy == (153 * (IF m > 2 THEN m - 3 ELSE m + 9) + 2) \div 5 + d - 1
        doe == yoe * 365 + yoe \div 4 - yoe \div 100 + doy
    IN era * 146097 + doe - 719468

\* dt.strftime('%a, %d %b %Y %H:%M:%S %z') for the UTC time `secs` seconds
\* after the epoch; zone is the text of %z.
Strftime(secs, zone) ==
    LET days == secs \div 86400
        rest == secs % 86400
        z == days + 719468
        era == z \div 146097
        doe == z - era * 146097
        yoe == (doe - doe \div 1460 + doe \div 36524 - doe \div 146096)
               \div 365
        doy == doe - (365 * yoe + yoe \div 4 - yoe \div 100)
        mp == (5 * doy + 2) \div 153
        d == doy - (153 * mp + 2) \div 5 + 1
        m == IF mp < 10 THEN mp + 3 ELSE mp - 9
        y == yoe + era * 400 + (IF m <= 2 THEN 1 ELSE 0)
        two(n) == <<DigitChars[(n \div 10) + 1], DigitChars[(n % 10) + 1]>>
    IN DayNames[((days + 4) % 7) + 1] \o <<",", " ">> \o two(d) \o <<" ">>
       \o MonthNames[m] \o <<" ">> \o two(y \div 100) \o two(y % 100) \o <<" ">>
       \o two(rest \div 3600) \o <<":">> \o two((rest % 3600) \div 60) \o <<":">>
       \o two(rest % 60) \o <<" ">> \o zone

\* The days of month m of year y.
DaysIn(y, m) ==
    IF m = 2
    THEN (IF y % 4 = 0 /\ (y % 100 # 0 \/ y % 400 = 0) THEN 29 ELSE 28)
    ELSE IF m \in {4, 6, 9, 11} THEN 30 ELSE 31

\* datetime.fromisoformat(s), for the texts YYYY-MM-DDTHH:MM:SS with no
\* offset or with +00:00, of the years a 32-bit count of seconds holds:
\* [ok, secs, zone].
FromIsoFormat(s) ==
    LET num(i, j) == Decimal(SubSeq(s, i, j))
        shaped ==
            /\ Len(s) \in {19, 25}
            /\ \A i \in {1, 2, 3, 4, 6, 7, 9, 10, 12, 13, 15, 16, 18, 19} :
                   IsDigit(s[i])
            /\ s[5] = "-" /\ s[8] = "-" /\ s[11] = "T"
            /\ s[14] = ":" /\ s[17] = ":"
            /\ Len(s) = 25 => SubSeq(s, 20, 25) = <<"+", "0", "0", ":", "0", "0">>
        valid ==
            /\ num(1, 4) \in 1902..2037
            /\ num(6, 7) \in 1..12
            /\ num(9, 10) \in 1..DaysIn(num(1, 4), num(6, 7))
            /\ num(12, 13) < 24 /\ num(15, 16) < 60 /\ num(18, 19) < 60
    IN IF shaped /\ valid
       THEN [ok |-> TRUE,
             secs |-> DaysFromCivil(num(1, 4), num(6, 7), num(9, 10)) * 86400
                      + num(12, 13) * 3600 + num(15, 16) * 60 + num(18, 19),
             zone |-> IF Len(s) = 25 THEN <<"+", "0", "0", "0", "0">> ELSE <<>>]
       ELSE [ok |-> FALSE, secs |-> 0, zone |-> <<>>]

\* format_timestamp; `now` is the clock read by the fallback.  The seconds
\* are whole: a fraction of a second is dropped from the text.
format_timestamp(timestamp_str, now) ==
    LET s == Str(timestamp_str)
        text == IF Len(s) > 0 /\ s[Len(s)] = "Z"
                THEN SubSeq(s, 1, Len(s) - 1) \o <<"+", "0", "0", ":", "0", "0">>
                ELSE s
        iso == FromIsoFormat(text)
        epoch == IntOfFloat(PyS(text))
    IN IF ~Truthy(timestamp_str) THEN PyS(<<>>)
       ELSE IF timestamp_str.t \in {"int", "bool"}
       THEN PyS(Strftime(IntOfFloat(timestamp_str).n, <<"+", "0", "0", "0", "0">>))
       ELSE IF iso.ok THEN PyS(Strftime(iso.secs, iso.zone))
       ELSE IF epoch.cls = "" THEN PyS(Strftime(epoch.n, <<"+", "0", "0", "0", "0">>))
       ELSE IF epoch.cls = "OverflowError" THEN Raise("OverflowError")
       ELSE PyS(Strftime(now, <<"+", "0", "0", "0", "0">>))

add_status_callback_params(twilio_format, data, now) ==
    LET ev == event_type(data)
        timestamp == OrChain(<<Get(data, "timestamp", PyNone),
                               Get(data, "Timestamp", PyNone),
                               Get(data, "time", PyNone),
                               Get(data, "event_time", PyNone)>>)
        formatted == format_timestamp(timestamp, now)
        params ==
            [CallbackSource |-> PyS(<<"c", "a", "l", "l", "-", "p", "r", "o", "g", "r", "e", "s", "s", "-", "e", "v", "e", "n", "t", "s">>),
             SequenceNumber |->
                 PyS(Str(Get(data, "sequenceNumber",
                             Get(data, "sequence", PyInt(0)))))]
    IN IF ev.t = "raise" THEN ev
       ELSE IF ~\E x \in {<<"i", "n", "i", "t", "i", "a", "t", "e", "d">>, <<"r", "i", "n", "g", "i", "n", "g">>, <<"a", "n", "s", "w", "e", "r", "e", "d">>, <<"c", "o", "m", "p", "l", "e", "t", "e", "d">>} :
                   Contains(ev.v, x)
       THEN Map(twilio_format)
       ELSE IF ~Truthy(timestamp) THEN Map(params @@ twilio_format)
       ELSE IF formatted.t = "raise" THEN formatted
       ELSE Map(("Timestamp" :> formatted) @@ params @@ twilio_format)

add_recording_params(twilio_format, data, now) ==
    LET ev == event_type(data)
        start_time == OrChain(<<Get(data, "recordingStartTime", PyNone),
                                Get(data, "RecordingStartTime", PyNone),
                                Get(data, "recording_start_time", PyNone)>>)
        formatted == format_timestamp(start_time, now)
        recording_params ==
            [RecordingSid |->
                 OrChain(<<Get(data, "recordingId", PyNone),
                           Get(data, "RecordingSid", PyNone),
                           Get(data, "recording_sid", PyNone), PyS(<<>>)>>),
             RecordingUrl |->
                 OrChain(<<Get(data, "recordingUrl", PyNone),
                           Get(data, "RecordingUrl", PyNone),
                           Get(data, "recording_url", PyNone),
                           Get(data, "url", PyNone), PyS(<<>>)>>),
             RecordingDuration |->
                 PyS(Str(Get(data, "recordingDuration",
                             Get(data, "RecordingDuration",
                                 Get(data, "recording_duration", PyInt(0)))))),
             RecordingStatus |-> PyS(<<"c", "o", "m", "p", "l", "e", "t", "e", "d">>),
             RecordingChannels |->
                 PyS(Str(Get(data, "channels",
                             Get(data, "RecordingChannels", PyInt(1))))),
             RecordingSource |-> PyS(<<"O", "u", "t", "b", "o", "u", "n", "d", "A", "P", "I">>),
             RecordingTrack |->
                 Get(data, "track", Get(data, "RecordingTrack", PyS(<<"b", "o", "t", "h">>)))]
    IN IF ev.t = "raise" THEN ev
       ELSE IF ~(\/ Contains(ev.v, <<"r", "e", "c", "o", "r", "d", "i", "n", "g">>)
                 \/ Truthy(Get(data, "recordingId", PyNone))
                 \/ Truthy(Get(data, "RecordingSid", PyNone)))
       THEN Map(twilio_format)
       ELSE IF ~Truthy(start_time)
       THEN Map(Update(twilio_format, Keep(recording_params, {<<"0">>})))
       ELSE IF formatted.t = "raise" THEN formatted
       ELSE Map(Update(twilio_format,
                       Keep(("RecordingStartTime" :> formatted)
                            @@ recording_params, {<<"0">>})))

add_dial_conference_params(twilio_format, data) ==
    LET ev == event_type(data)
        dial_status == map_call_status(
            [status |-> Get(data, "dialStatus",
                            Get(data, "DialCallStatus", PyS(<<>>)))])
        dial_params ==
            [DialCallSid |->
                 OrChain(<<Get(data, "dialCallSid", PyNone),
                           Get(data, "DialCallSid", PyNone),
                           Get(data, "dial_call_sid", PyNone), PyS(<<>>)>>),
             DialCallStatus |-> dial_status,
             DialCallDuration |->
                 PyS(Str(Get(data, "dialDuration",
                             Get(data, "DialCallDuration", PyInt(0))))),
             ConferenceSid |->
                 OrChain(<<Get(data, "conferenceSid", PyNone),
                           Get(data, "ConferenceSid", PyNone),
                           Get(data, "conference_sid", PyNone), PyS(<<>>)>>),
             FriendlyName |->
                 OrChain(<<Get(data, "conferenceName", PyNone),
                           Get(data, "FriendlyName", PyNone),
                           Get(data, "conference_name", PyNone), PyS(<<>>)>>),
             Muted |-> Lower(PyS(Str(Get(data, "muted", PyBool(FALSE))))),
             Hold |-> Lower(PyS(Str(Get(data, "hold", PyBool(FALSE)))))]
    IN IF ev.t = "raise" THEN ev
       ELSE IF ~(Contains(ev.v, <<"d", "i", "a", "l">>) \/ Contains(ev.v, <<"c", "o", "n", "f", "e", "r", "e", "n", "c", "e">>))
       THEN Map(twilio_format)
       ELSE IF dial_status.t = "raise" THEN dial_status
       ELSE Map(Update(twilio_format, Keep(dial_params, {<<"f", "a", "l", "s", "e">>, <<"0">>})))

add_sip_params(twilio_format, data) ==
    LET sip_params ==
            [SipCallId |->
                 OrChain(<<Get(data, "sipCallId", PyNone),
                           Get(data, "SipCallId", PyNone),
                           Get(data, "sip_call_id", PyNone), PyS(<<>>)>>),
             SipResponseCode |->
                 PyS(Str(Get(data, "sipResponseCode",
                             Get(data, "SipResponseCode", PyInt(200))))),
             SipHeader_User_Agent |->
                 OrChain(<<Get(data, "sipUserAgent", PyNone),
                           Get(data, "SipHeader_User_Agent", PyNone),
                           Get(data, "sip_user_agent", PyNone), PyS(<<>>)>>),
             SipHeader_Contact |->
                 OrChain(<<Get(data, "sipContact", PyNone),
                           Get(data, "SipHeader_Contact", PyNone),
                           Get(data, "sip_contact", PyNone), PyS(<<>>)>>)]
    IN IF \/ Truthy(Get(data, "sipCallId", PyNone))
          \/ Truthy(Get(data, "sipResponseCode", PyNone))
          \/ Contains(Lower(PyS(Str(Get(data, "event", PyS(<<>>))))).v, <<"s", "i", "p">>)
       THEN Map(Update(twilio_format, Keep(sip_params, {<<"2", "0", "0">>})))
       ELSE Map(twilio_format)

add_additional_params(twilio_format, data) ==
    LET param(camel, pascal) ==
            IF Truthy(Get(data, camel, PyNone))
               \/ Truthy(Get(data, pascal, PyNone))
            THEN pascal :> PyS(Str(Get(data, camel,
                                       Get(data, pascal, PyNone))))
            ELSE <<>>
    IN Map(param("errorCode", "ErrorCode")
           @@ param("errorMessage", "ErrorMessage")
           @@ param("queueSid", "QueueSid")
           @@ param("queueName", "QueueName")
           @@ param("applicationSid", "ApplicationSid")
           @@ twilio_format)

\* enhance_twilio_data without the filter on None and empty string forms.
enhance_twilio_data_unfiltered(data) ==
    LET enhanced ==
            (IF Truthy(Get(data, "ApiVersion", PyNone)) THEN <<>>
             ELSE "ApiVersion" :> PyS(<<"2", "0", "1", "0", "-", "0", "4", "-", "0", "1">>))
            @@ (IF Truthy(Get(data, "Direction", PyNone)) THEN <<>>
                ELSE "Direction" :> PyS(<<"o", "u", "t", "b", "o", "u", "n", "d", "-", "a", "p", "i">>))
            @@ data
    IN Map([k \in DOMAIN enhanced |-> PyS(Str(enhanced[k]))])

enhance_twilio_data(data) ==
    LET enhanced ==
            (IF Truthy(Get(data, "ApiVersion", PyNone)) THEN <<>>
             ELSE "ApiVersion" :> PyS(<<"2", "0", "1", "0", "-", "0", "4", "-", "0", "1">>))
            @@ (IF Truthy(Get(data, "Direction", PyNone)) THEN <<>>
                ELSE "Direction" :> PyS(<<"o", "u", "t", "b", "o", "u", "n", "d", "-", "a", "p", "i">>))
            @@ data
    IN Map([k \in {k \in DOMAIN enhanced :
                      enhanced[k].t # "None" /\ Len(Str(enhanced[k])) > 0}
               |-> PyS(Str(enhanced[k]))])

\* f(x) unless x is a raised exception, which is passed on; x is computed
\* once.
Then(x, f(_)) ==
    CHOOSE r \in {IF y.t = "raise" THEN y ELSE f(y.v) : y \in {x}} : TRUE

\* convert_to_twilio_format: Map(the parameter map), or the exception raised.
convert_to_twilio_format(data, now, h) ==
    LET d == data.v
        core ==
            [CallSid |-> extract_call_sid(d, now, h),
             AccountSid |->
                 Get(d, "accountSid",
                     Get(d, "AccountSid", PyS(<<"A", "C">> \o Repeat("x", 32)))),
             ApiVersion |-> PyS(<<"2", "0", "1", "0", "-", "0", "4", "-", "0", "1">>),
             From |-> format_phone_number(extract_from_number(d)),
             To |-> format_phone_number(extract_to_number(d)),
             CallStatus |-> map_call_status(d),
             Direction |-> Get(d, "Direction", PyS(<<"o", "u", "t", "b", "o", "u", "n", "d", "-", "a", "p", "i">>)),
             CallDuration |-> extract_call_duration(d),
             Duration |-> extract_duration_minutes(d)]
        raised(c) == FirstRaise(<<c.CallSid, c.CallStatus, c.CallDuration,
                                  c.Duration>>)
        optional_params ==
            [ForwardedFrom |->
                 format_phone_number(
                     Get(d, "forwardedFrom",
                         Get(d, "ForwardedFrom", PyS(<<>>)))),
             CallerName |->
                 Get(d, "callerName", Get(d, "CallerName", PyS(<<>>))),
             ParentCallSid |->
                 Get(d, "parentCallSid", Get(d, "ParentCallSid", PyS(<<>>))),
             CallToken |->
                 Get(d, "callToken", Get(d, "CallToken", PyS(<<>>)))]
        twilio_format(c) == Update(Keep(c, {}), Keep(optional_params, {}))
        checked == CHOOSE r \in {IF raised(c).t = "raise" THEN raised(c)
                                 ELSE Map(twilio_format(c)) : c \in {core}} :
                       TRUE
    IN IF data.t # "data" THEN Map(<<>>)
       ELSE IF "CallSid" \in DOMAIN d /\ "event" \notin DOMAIN d
       THEN enhance_twilio_data(d)
       ELSE Then(Then(Then(Then(Then(Then(Then(Then(checked,
                LAMBDA tf : add_geographic_params(tf, d)),
                LAMBDA tf : add_amd_params(tf, d)),
                LAMBDA tf : add_event_specific_params(tf, d)),
                LAMBDA tf : add_status_callback_params(tf, d, now)),
                LAMBDA tf : add_recording_params(tf, d, now)),
                LAMBDA tf : add_dial_conference_params(tf, d)),
                LAMBDA tf : add_sip_params(tf, d)),
                LAMBDA tf : add_additional_params(tf, d))

RECURSIVE KeyOf(_)
\* The str s as a dict key.
KeyOf(s) == IF Len(s) = 0 THEN "" ELSE s[1] \o KeyOf(Tail(s))

RECURSIVE Split(_, _)
\* s.split(sep) for a one-character sep.
Split(s, sep) ==
    IF \E i \in 1..Len(s) : s[i] = sep
    THEN LET i == CHOOSE i \in 1..Len(s) :
                      s[i] = sep /\ \A j \in 1..(i - 1) : s[j] # sep
         IN <<SubSeq(s, 1, i - 1)>> \o Split(SubSeq(s, i + 1, Len(s)), sep)
    ELSE <<s>>

RECURSIVE FormDict(_)
\* dict(item.split('=', 1) for item in items if '=' in item)
FormDict(items) ==
    IF Len(items) = 0 THEN <<>>
    ELSE LET item == items[Len(items)]
             parts == Split(item, "=")
             rest == FormDict(SubSeq(items, 1, Len(items) - 1))
         IN IF Len(parts) = 1 THEN rest
            ELSE (KeyOf(parts[1])
                  :> PyS(SubSeq(item, Len(parts[1]) + 2, Len(item))))
                 @@ rest

\* json.loads(s), for the texts without white space that spell an int,
\* null, true, false, a str without escapes, [], {} or an object of one
\* str member: [ok, value]; ok is FALSE where JSONDecodeError is raised.
json_loads(s) ==
    LET plain(t) == \A i \in 1..Len(t) : t[i] \notin {"\"", "\\"}
        digits(t) == /\ Len(t) > 0
                     /\ \A i \in 1..Len(t) : IsDigit(t[i])
                     /\ Len(t) > 1 => t[1] # "0"
        quoted(t) == /\ Len(t) >= 2 /\ t[1] = "\"" /\ t[Len(t)] = "\""
                     /\ plain(SubSeq(t, 2, Len(t) - 1))
        inner == SubSeq(s, 2, Len(s) - 1)
        colon == CHOOSE i \in 1..Len(inner) :
                     inner[i] = ":" /\ \A j \in 1..(i - 1) : inner[j] # ":"
        yes(v) == [ok |-> TRUE, value |-> v]
    IN IF digits(s) THEN yes(PyInt(Decimal(s)))
       ELSE IF Len(s) > 1 /\ s[1] = "-" /\ digits(Tail(s))
       THEN yes(PyInt(0 - Decimal(Tail(s))))
       ELSE IF s = <<"n", "u", "l", "l">> THEN yes(PyNone)
       ELSE IF s = <<"t", "r", "u", "e">> THEN yes(PyBool(TRUE))
       ELSE IF s = <<"f", "a", "l", "s", "e">> THEN yes(PyBool(FALSE))
       ELSE IF quoted(s) THEN yes(PyS(inner))
       ELSE IF s = <<"[", "]">> THEN yes(PyList(<<>>))
       ELSE IF s = <<"{", "}">> THEN yes([t |-> "data", v |-> <<>>])
       ELSE IF /\ Len(s) >= 7 /\ s[1] = "{" /\ s[Len(s)] = "}"
               /\ \E i \in 1..Len(inner) : inner[i] = ":"
               /\ quoted(SubSeq(inner, 1, colon - 1))
               /\ quoted(SubSeq(inner, colon + 1, Len(inner)))
       THEN yes([t |-> "data",
                 v |-> KeyOf(SubSeq(inner, 2, colon - 2))
                       :> PyS(SubSeq(inner, colon + 2, Len(inner) - 1))])
       ELSE [ok |-> FALSE, value |-> PyNone]

\* What process_webhook hands to convert_to_twilio_format.
RequestData(request_data) ==
    CASE request_data.t = "str" ->
           IF json_loads(request_data.v).ok
           THEN json_loads(request_data.v).value
           ELSE [t |-> "data",
                 v |-> FormDict(Split(request_data.v, "&"))]
      [] request_data.t = "data" -> request_data
      [] OTHER -> [t |-> "data", v |-> <<>>]

\* The registry with the first client given for a call kept.
Register_first(twilio_data, a_client) ==
    IF /\ Truthy(Get(twilio_data, "CallSid", PyNone))
       /\ a_client # 0
       /\ twilio_data["CallSid"].v \notin DOMAIN contexts
    THEN (twilio_data["CallSid"].v :> a_client) @@ contexts
    ELSE contexts

\* process_webhook: call_sid = twilio_data.get('CallSid');
\* if call_sid and client: _contexts[call_sid] = client
Register(twilio_data, a_client) ==
    IF Truthy(Get(twilio_data, "CallSid", PyNone)) /\ a_client # 0
    THEN (twilio_data["CallSid"].v :> a_client) @@ contexts
    ELSE contexts

\* process_webhook with a registry that forgets a call when a request for
\* it comes with no client.
Webhook_forgetful(request_data, a_client, now, h) ==
    \E twilio_data \in
           {convert_to_twilio_format(RequestData(request_data), now, h)} :
        /\ returned' = IF twilio_data.t = "raise"
                       THEN [op |-> "process_webhook", exc |-> twilio_data.v,
                             map |-> <<>>, got |-> 0]
                       ELSE [op |-> "process_webhook", exc |-> "",
                             map |-> twilio_data.v, got |-> 0]
        /\ contexts' =
               IF twilio_data.t = "raise" THEN contexts
               ELSE IF a_client = 0 /\ Truthy(Get(twilio_data.v, "CallSid", PyNone))
               THEN [s \in DOMAIN contexts \ {twilio_data.v["CallSid"].v} |->
                        contexts[s]]
               ELSE Register(twilio_data.v, a_client)
        /\ history' =
               Append(history,
                      [sid |-> IF twilio_data.t = "raise" THEN PyNone
                               ELSE Get(twilio_data.v, "CallSid", PyNone),
                       client |-> a_client])

\* The body of process_webhook for the request data and the client given,
\* the clock reading `now` and the hash h being the environment's.
Webhook(request_data, a_client, now, h) ==
    \E twilio_data \in
           {convert_to_twilio_format(RequestData(request_data), now, h)} :
        /\ returned' = IF twilio_data.t = "raise"
                       THEN [op |-> "process_webhook", exc |-> twilio_data.v,
                             map |-> <<>>, got |-> 0]
                       ELSE [op |-> "process_webhook", exc |-> "",
                             map |-> twilio_data.v, got |-> 0]
        /\ contexts' = IF twilio_data.t = "raise" THEN contexts
                       ELSE Register(twilio_data.v, a_client)
        /\ history' =
               Append(history,
                      [sid |-> IF twilio_data.t = "raise" THEN PyNone
                               ELSE Get(twilio_data.v, "CallSid", PyNone),
                       client |-> a_client])

\* WebhookHelper.process_webhook(request, client): the first call.
process_webhook(now, h) ==
    /\ returned.op = "none"
    /\ Webhook(request, client, now, h)
    /\ UNCHANGED <<request, client>>

\* Bound: the number of process_webhook calls made one after another.
MaxWebhooks == 3

\* WebhookHelper.process_webhook(request_data, client), one call of many.
WebhookHelper_process_webhook(request_data, a_client, now, h) ==
    /\ Len(history) < MaxWebhooks
    /\ request' = request_data
    /\ client' = a_client
    /\ Webhook(request_data, a_client, now, h)

\* WebhookHelper.get_client_for_call(call_sid): _contexts.get(call_sid)
get_client_for_call(call_sid) ==
    /\ returned.op # "none"
    /\ returned' = [returned EXCEPT
                        !.op = "get_client_for_call",
                        !.got = IF call_sid \in DOMAIN contexts
                                THEN contexts[call_sid] ELSE 0]
    /\ UNCHANGED <<request, client, contexts, history>>

(***************************************************************************)
(* Signature validation: validate_request and the library functions it     *)
(* calls, on bytes 0..255 and 32-bit words <<high half, low half>>.        *)
(***************************************************************************)
\* The printable ASCII characters, from code 32 on (the grave accent, which
\* a string of this language cannot hold, by its code point).
AsciiChars ==
    <<" ", "!", "\"", "#", "$", "%", "&", "'", "(", ")", "*", "+", ",", "-",
      ".", "/", "0", "1", "2", "3", "4", "5", "6", "7", "8", "9", ":", ";",
      "<", "=", ">", "?", "@", "A", "B", "C", "D", "E", "F", "G", "H", "I",
      "J", "K", "L", "M", "N", "O", "P", "Q", "R", "S", "T", "U", "V", "W",
      "X", "Y", "Z", "[", "\\", "]", "^", "_", "U+0060", "a", "b", "c", "d",
      "e",
      "f", "g", "h", "i", "j", "k", "l", "m", "n", "o", "p", "q", "r", "s",
      "t", "u", "v", "w", "x", "y", "z", "{", "|", "}", "~">>

\* A character outside ASCII: e with an acute accent.
e_acute == "U+00E9"

IsAscii(c) == \E i \in 1..Len(AsciiChars) : AsciiChars[i] = c

\* ord(c)
Ord(c) ==
    IF IsAscii(c)
    THEN 31 + (CHOOSE i \in 1..Len(AsciiChars) : AsciiChars[i] = c)
    ELSE 233

RECURSIVE encode_utf8(_)
\* s.encode('utf-8'): one byte for an ASCII character, two for U+00E9.
encode_utf8(s) ==
    IF Len(s) = 0 THEN <<>>
    ELSE (IF IsAscii(s[1]) THEN <<Ord(s[1])>>
          ELSE <<192 + (Ord(s[1]) \div 64), 128 + (Ord(s[1]) % 64)>>)
         \o encode_utf8(Tail(s))

BitOp(op, a, b) ==
    CASE op = "xor" -> (a + b) % 2
      [] op = "and" -> a * b
      [] op = "or" -> IF a + b > 0 THEN 1 ELSE 0

RECURSIVE Bitwise(_, _, _, _)
\* a op b for n-bit values.
Bitwise(op, a, b, n) ==
    IF n = 0 THEN 0
    ELSE BitOp(op, a % 2, b % 2) + 2 * Bitwise(op, a \div 2, b \div 2, n - 1)

\* The operations on 4-bit values, tabulated.
Xor4 == [a \in 0..15 |-> [b \in 0..15 |-> Bitwise("xor", a, b, 4)]]
And4 == [a \in 0..15 |-> [b \in 0..15 |-> Bitwise("and", a, b, 4)]]
Or4 == [a \in 0..15 |-> [b \in 0..15 |-> Bitwise("or", a, b, 4)]]

\* The same on 16-bit values, four bits at a time.
Op16(T, a, b) ==
    T[a % 16][b % 16]
    + 16 * T[(a \div 16) % 16][(b \div 16) % 16]
    + 256 * T[(a \div 256) % 16][(b \div 256) % 16]
    + 4096 * T[a \div 4096][b \div 4096]

Xor8(a, b) == Xor4[a % 16][b % 16] + 16 * Xor4[a \div 16][b \div 16]

WXor(x, y) == <<Op16(Xor4, x[1], y[1]), Op16(Xor4, x[2], y[2])>>
WAnd(x, y) == <<Op16(And4, x[1], y[1]), Op16(And4, x[2], y[2])>>
WOr(x, y) == <<Op16(Or4, x[1], y[1]), Op16(Or4, x[2], y[2])>>
WNot(x) == <<65535 - x[1], 65535 - x[2]>>

\* x rotated left by n bits, n < 16.
RotlSmall(x, n) ==
    <<((x[1] * (2 ^ n)) % 65536) + (x[2] \div (2 ^ (16 - n))),
      ((x[2] * (2 ^ n)) % 65536) + (x[1] \div (2 ^ (16 - n)))>>

Rotl(x, n) ==
    IF n < 16 THEN RotlSmall(x, n) ELSE RotlSmall(<<x[2], x[1]>>, n - 16)

RECURSIVE SumHalf(_, _, _)
SumHalf(ws, half, i) ==
    IF i = 0 THEN 0 ELSE ws[i][half] + SumHalf(ws, half, i - 1)

\* The sum of the words of ws modulo 2^32.
WAdd(ws) ==
    <<(SumHalf(ws, 1, Len(ws)) + (SumHalf(ws, 2, Len(ws)) \div 65536)) % 65536,
      SumHalf(ws, 2, Len(ws)) % 65536>>

\* The constants and functions of SHA-1 for round t (from 0):
\* 5A827999, 6ED9EBA1, 8F1BBCDC, CA62C1D6.
Sha1K(t) ==
    CASE t < 20 -> <<23170, 31129>>
      [] t >= 20 /\ t < 40 -> <<28377, 60321>>
      [] t >= 40 /\ t < 60 -> <<36635, 48348>>
      [] OTHER -> <<51810, 49622>>

Sha1F(t, b, c, d) ==
    CASE t < 20 -> WOr(WAnd(b, c), WAnd(WNot(b), d))
      [] t >= 40 /\ t < 60 -> WOr(WOr(WAnd(b, c), WAnd(b, d)), WAnd(c, d))
      [] OTHER -> WXor(WXor(b, c), d)

RECURSIVE Schedule(_, _, _)
\* The message schedule: w holds lo - 1 words and gets the words lo..hi - 1.
Schedule(w, lo, hi) ==
    IF hi = lo + 1
    THEN Append(w, Rotl(WXor(WXor(w[lo - 3], w[lo - 8]),
                             WXor(w[lo - 14], w[lo - 16])), 1))
    ELSE CHOOSE r \in
             {Schedule(n, (lo + hi) \div 2, hi) :
                  n \in {Schedule(w, lo, (lo + hi) \div 2)}} : TRUE

RECURSIVE Rounds(_, _, _, _)
\* The rounds lo..hi - 1 of the compression of a block with schedule w.
Rounds(st, w, lo, hi) ==
    IF hi = lo + 1
    THEN <<WAdd(<<Rotl(st[1], 5), Sha1F(lo, st[2], st[3], st[4]),
                  st[5], Sha1K(lo), w[lo + 1]>>),
           st[1], Rotl(st[2], 30), st[3], st[4]>>
    ELSE CHOOSE r \in
             {Rounds(n, w, (lo + hi) \div 2, hi) :
                  n \in {Rounds(st, w, lo, (lo + hi) \div 2)}} : TRUE

Compress(h, block) ==
    CHOOSE r \in
        {<<WAdd(<<h[1], st[1]>>), WAdd(<<h[2], st[2]>>), WAdd(<<h[3], st[3]>>),
           WAdd(<<h[4], st[4]>>), WAdd(<<h[5], st[5]>>)>> :
             st \in {Rounds(h, w, 0, 80) : w \in {Schedule(block, 17, 81)}}} :
        TRUE

\* 67452301, EFCDAB89, 98BADCFE, 10325476, C3D2E1F0.
Sha1H0 ==
    <<<<26437, 8961>>, <<61389, 43913>>, <<39098, 56574>>,
      <<4146, 21622>>, <<50130, 57840>>>>

\* The message padded: 0x80, zeros, and its length in bits in 8 bytes.
Sha1Pad(bytes) ==
    bytes \o <<128>> \o [i \in 1..((119 - (Len(bytes) % 64)) % 64) |-> 0]
    \o <<0, 0, 0, 0, ((Len(bytes) * 8) \div 16777216) % 256,
         ((Len(bytes) * 8) \div 65536) % 256,
         ((Len(bytes) * 8) \div 256) % 256, (Len(bytes) * 8) % 256>>

\* The 16 words of block k (from 0) of the padded message p.
Sha1Block(p, k) ==
    [i \in 1..16 |->
        <<p[64 * k + 4 * i - 3] * 256 + p[64 * k + 4 * i - 2],
          p[64 * k + 4 * i - 1] * 256 + p[64 * k + 4 * i]>>]

RECURSIVE Sha1Blocks(_, _, _)
Sha1Blocks(h, p, k) ==
    IF 64 * k >= Len(p) THEN h
    ELSE CHOOSE r \in
             {Sha1Blocks(n, p, k + 1) : n \in {Compress(h, Sha1Block(p, k))}} :
             TRUE

\* hashlib.sha1(bytes).digest(): 20 bytes.
sha1(bytes) ==
    CHOOSE r \in
        {[i \in 1..20 |->
             IF i % 2 = 1
             THEN h[((i - 1) \div 4) + 1][(((i - 1) % 4) \div 2) + 1] \div 256
             ELSE h[((i - 1) \div 4) + 1][(((i - 1) % 4) \div 2) + 1] % 256] :
         h \in {Sha1Blocks(Sha1H0, p, 0) : p \in {Sha1Pad(bytes)}}} : TRUE

\* The key of an HMAC as a block of 64 bytes.
HmacKey(key) ==
    CHOOSE r \in
        {k \o [i \in 1..(64 - Len(k)) |-> 0] :
             k \in {IF Len(key) > 64 THEN sha1(key) ELSE key}} : TRUE

\* hmac.new(key, msg, hashlib.sha1).digest()
hmac_sha1(key, msg) ==
    CHOOSE r \in
        {sha1([i \in 1..64 |-> Xor8(k[i], 92)]
              \o sha1([i \in 1..64 |-> Xor8(k[i], 54)] \o msg)) :
             k \in {HmacKey(key)}} : TRUE

B64Chars ==
    <<"A", "B", "C", "D", "E", "F", "G", "H", "I", "J", "K", "L", "M", "N",
      "O", "P", "Q", "R", "S", "T", "U", "V", "W", "X", "Y", "Z", "a", "b",
      "c", "d", "e", "f", "g", "h", "i", "j", "k", "l", "m", "n", "o", "p",
      "q", "r", "s", "t", "u", "v", "w", "x", "y", "z", "0", "1", "2", "3",
      "4", "5", "6", "7", "8", "9", "+", "/">>

RECURSIVE b64encode(_)
\* base64.b64encode(bytes).decode('utf-8')
b64encode(bytes) ==
    IF Len(bytes) = 0 THEN <<>>
    ELSE IF Len(bytes) = 1
    THEN <<B64Chars[(bytes[1] \div 4) + 1],
           B64Chars[((bytes[1] % 4) * 16) + 1], "=", "=">>
    ELSE IF Len(bytes) = 2
    THEN <<B64Chars[(bytes[1] \div 4) + 1],
           B64Chars[((bytes[1] % 4) * 16) + (bytes[2] \div 16) + 1],
           B64Chars[((bytes[2] % 16) * 4) + 1], "=">>
    ELSE <<B64Chars[(bytes[1] \div 4) + 1],
           B64Chars[((bytes[1] % 4) * 16) + (bytes[2] \div 16) + 1],
           B64Chars[((bytes[2] % 16) * 4) + (bytes[3] \div 64) + 1],
           B64Chars[(bytes[3] % 64) + 1]>>
         \o b64encode(SubSeq(bytes, 4, Len(bytes)))

\* a < b for two str: by code points, a proper prefix first.
StrLess(a, b) ==
    \E i \in 1..Len(b) :
        /\ i <= Len(a) + 1
        /\ SubSeq(a, 1, i - 1) = SubSeq(b, 1, i - 1)
        /\ i = Len(a) + 1 \/ Ord(a[i]) < Ord(b[i])

\* sorted(params.items()): the items of a dict, whose keys differ, in
\* ascending order of their keys.
sorted_items(items) ==
    LET order == CHOOSE f \in [1..Len(items) -> 1..Len(items)] :
                     /\ \A i, j \in 1..Len(items) : i # j => f[i] # f[j]
                     /\ \A i \in 1..(Len(items) - 1) :
                            StrLess(items[f[i]][1], items[f[i + 1]][1])
    IN [i \in 1..Len(items) |-> items[order[i]]]

RECURSIVE KeyValues(_)
\* The f"{key}{value}" of the items, joined.
KeyValues(items) ==
    IF Len(items) = 0 THEN <<>>
    ELSE items[1][1] \o Str(items[1][2]) \o KeyValues(Tail(items))

\* hmac.compare_digest(a, b) for a str a: a TypeError for a b that is no
\* str, or for non-ASCII characters in either.
compare_digest(a, b) ==
    IF b.t # "str" THEN Raise("TypeError")
    ELSE IF \E i \in 1..Len(a) : ~IsAscii(a[i]) THEN Raise("TypeError")
    ELSE IF \E i \in 1..Len(b.v) : ~IsAscii(b.v[i]) THEN Raise("TypeError")
    ELSE PyBool(a = b.v)

\* The signature validate_request expects.
expected_signature(auth_token, url, params) ==
    b64encode(hmac_sha1(encode_utf8(auth_token),
                        encode_utf8(url \o KeyValues(sorted_items(params)))))

\* WebhookHelper.validate_request(auth_token, url, params, signature), a
\* static method: what it returns or raises is the output.
validate_request(auth_token, url, params, signature) ==
    /\ output = PyNone
    /\ output' = compare_digest(expected_signature(auth_token, url, params),
                                signature)

(***************************************************************************)
(* The requests the normalizer is given.                                   *)
(***************************************************************************)
\* Bound: the number of fields added to a base payload.
MaxFields == 1

\* The payloads of the documented examples, the empty one, and one per
\* class of event.
BasePayloads ==
    {<<>>,
     [CallSid |-> PyS(<<"C", "A", "1", "2", "3">>),
      From |-> PyS(<<"+", "1", "5", "5", "5", "1", "2", "3", "4", "5", "6", "7">>)],
     [event |-> PyS(<<"d", "t", "m", "f", ".", "r", "e", "c", "e", "i", "v", "e", "d">>),
      digit |-> PyS(<<"5">>), callId |-> PyS(<<"a", "b", "c">>)],
     [event |-> PyS(<<"c", "a", "l", "l", ".", "r", "i", "n", "g", "i", "n", "g">>)],
     [event |-> PyS(<<"g", "a", "t", "h", "e", "r", ".", "c", "o", "m", "p", "l", "e", "t", "e", "d">>)]}

\* Fields of provider payloads: <<key, value>>.
Fields ==
    {<<"event", PyS(<<"c", "a", "l", "l", ".", "r", "i", "n", "g", "i", "n", "g">>)>>, <<"event", PyS(<<"C", "A", "L", "L", ".", "A", "N", "S", "W", "E", "R", "E", "D">>)>>,
     <<"event", PyS(<<"g", "a", "t", "h", "e", "r", ".", "c", "o", "m", "p", "l", "e", "t", "e", "d">>)>>,
     <<"event", PyS(<<"r", "e", "c", "o", "r", "d", "i", "n", "g", ".", "c", "o", "m", "p", "l", "e", "t", "e", "d">>)>>,
     <<"event", PyS(<<"d", "i", "a", "l", ".", "c", "o", "m", "p", "l", "e", "t", "e", "d">>)>>, <<"event", PyS(<<"s", "i", "p", ".", "i", "n", "v", "i", "t", "e">>)>>,
     <<"event", PyInt(200)>>, <<"Event", PyS(<<"c", "a", "l", "l", ".", "f", "a", "i", "l", "e", "d">>)>>,
     <<"status", PyS(<<"A", "N", "S", "W", "E", "R", "E", "D">>)>>, <<"status", PyS(<<"e", "n", "d", "e", "d">>)>>,
     <<"status", PyS(<<"w", "e", "i", "r", "d">>)>>, <<"status", PyInt(200)>>,
     <<"status", PyS(<<>>)>>, <<"CallStatus", PyS(<<"w", "e", "i", "r", "d">>)>>,
     <<"state", PyNone>>,
     <<"callId", PyS(<<>>)>>, <<"callId", PyInt(7)>>,
     <<"callId", PyS(<<"C", "A", "1">>)>>, <<"callId", PyS(<<"0", "1", "2", "3", "4", "5", "6", "7", "8", "9">>)>>,
     <<"CallSid", PyS(<<"C", "A", "9">>)>>, <<"sid", PyS(<<"s", "1">>)>>,
     <<"from", PyS(<<"5", "5", "5", "1", "2", "3", "4", "5", "6", "7">>)>>, <<"from", PyS(<<>>)>>,
     <<"From", PyS(<<"1", "5", "5", "5", "1", "2", "3", "4", "5", "6", "7">>)>>, <<"caller", PyInt(42)>>,
     <<"to", PyS(<<"(", "5", "5", "5", ")", " ", "1", "2", "3", "-", "4", "5", "6", "7", " ", "x">>)>>,
     <<"digits", PyInt(5)>>, <<"digits", PyS(<<"T", "i", "m", "e", "O", "u", "t">>)>>,
     <<"Digits", PyS(<<"9">>)>>, <<"speechResult", PyS(<<"h", "i">>)>>,
     <<"confidence", PyS(<<>>)>>,
     <<"sequenceNumber", PyS(<<>>)>>, <<"sequence", PyInt(3)>>,
     <<"timestamp", PyS(<<"2", "0", "1", "0", "-", "0", "8", "-", "1", "6", "T", "0", "3", ":", "4", "5", ":", "0", "1", "Z">>)>>,
     <<"timestamp", PyInt(86400)>>, <<"time", PyS(<<"s", "o", "o", "n">>)>>,
     <<"geography", PyS(<<"x">>)>>,
     <<"geography", PyDict(<< <<"fromCity", PyS(<<"R", "o", "m", "e">>)>> >>)>>,
     <<"toCity", PyInt(0)>>,
     <<"amd", PyDict(<< <<"status", PyS(<<"H", "u", "m", "a", "n">>)>> >>)>>,
     <<"amd", PyDict(<< <<"status", PyS(<<"F", "A", "X">>)>>,
                        <<"confidence", PyS(<<>>)>> >>)>>,
     <<"amd", PyDict(<< <<"status", PyS(<<"N", "O", "T", "S", "U", "R", "E">>)>>,
                        <<"score", PyInt(0)>> >>)>>,
     <<"amd", PyS(<<"m", "a", "c", "h", "i", "n", "e">>)>>, <<"answeredBy", PyS(<<"r", "o", "b", "o", "t">>)>>,
     <<"duration", PyS(<<"1", "2", "5">>)>>, <<"duration", PyS(<<"a", "b", "c">>)>>,
     <<"seconds", PyInt(59)>>, <<"duration", PyS(<<"i", "n", "f">>)>>,
     <<"accountSid", PyInt(5)>>, <<"callerName", PyS(<<"B", "o", "b">>)>>,
     <<"Direction", PyS(<<>>)>>, <<"ApiVersion", PyNone>>,
     <<"errorCode", PyS(<<>>)>>, <<"ErrorCode", PyInt(404)>>,
     <<"recordingId", PyS(<<"R", "E", "1">>)>>, <<"recordingDuration", PyInt(0)>>,
     <<"track", PyNone>>, <<"dialStatus", PyS(<<"b", "u", "s", "y">>)>>,
     <<"dialStatus", PyInt(5)>>, <<"muted", PyBool(TRUE)>>,
     <<"sipResponseCode", PyInt(486)>>, <<"note", PyNone>>}

RECURSIVE Payloads(_)
\* The base payloads with up to n fields added or replaced.
Payloads(n) ==
    IF n = 0 THEN BasePayloads
    ELSE Payloads(n - 1)
         \cup {(f[1] :> f[2]) @@ p : f \in Fields, p \in Payloads(n - 1)}

\* Requests that are no dict: texts and other values.
OtherRequests ==
    {PyS(<<"C", "a", "l", "l", "S", "i", "d", "=", "C", "A", "7", "&", "F", "r", "o", "m", "=", "1", "5", "5", "5", "1", "2", "3", "4", "5", "6", "7", "&", "x">>), PyS(<<"{", "\"", "c", "a", "l", "l", "I", "d", "\"", ":", "\"", "a", "b", "c", "\"", "}">>),
     PyS(<<"{", "}">>), PyS(<<"[", "]">>), PyS(<<"1", "2">>), PyS(<<>>), PyS(<<"a", "=", "1", "=", "2", "&", "a", "=", "3">>),
     PyNone, PyInt(3)}

Requests ==
    {[t |-> "data", v |-> p] : p \in Payloads(MaxFields)} \cup OtherRequests

Clients == {0, 1}
Clock == {1700000000, 1700000001}
Hashes == {7, 123456}

InitHook ==
    /\ request \in Requests
    /\ client \in Clients
    /\ contexts = <<>>
    /\ returned = [op |-> "none", exc |-> "", map |-> <<>>, got |-> 0]
    /\ history = <<>>

\* The state of the normalizer while the document model runs.
NoHook ==
    /\ request = PyNone
    /\ client = 0
    /\ contexts = <<>>
    /\ returned = [op |-> "none", exc |-> "", map |-> <<>>, got |-> 0]
    /\ history = <<>>

CallSids == {<<"C", "A", "1", "2", "3">>, <<"C", "A", "9">>}

NextWebhook ==
    \/ /\ \E now \in Clock, h \in Hashes : process_webhook(now, h)
       /\ UNCHANGED <<docvars, restvars>>
    \/ /\ \E call_sid \in CallSids : get_client_for_call(call_sid)
       /\ UNCHANGED <<docvars, restvars>>

(***************************************************************************)
(* CallInstance, as rest/api/v2010/account/call/__init__.py has it and as  *)
(* rest/api/v2010/account/call.py has it.                                  *)
(***************************************************************************)
\* status_mapping of _map_status, the same table in both files.
status_mapping ==
    {<<<<"q", "u", "e", "u", "e", "d">>, <<"q", "u", "e", "u", "e", "d">>>>, <<<<"r", "i", "n", "g", "i", "n", "g">>, <<"r", "i", "n", "g", "i", "n", "g">>>>,
     <<<<"a", "n", "s", "w", "e", "r", "e", "d">>, <<"i", "n", "-", "p", "r", "o", "g", "r", "e", "s", "s">>>>, <<<<"i", "n", "-", "p", "r", "o", "g", "r", "e", "s", "s">>, <<"i", "n", "-", "p", "r", "o", "g", "r", "e", "s", "s">>>>,
     <<<<"a", "c", "t", "i", "v", "e">>, <<"i", "n", "-", "p", "r", "o", "g", "r", "e", "s", "s">>>>, <<<<"c", "o", "m", "p", "l", "e", "t", "e", "d">>, <<"c", "o", "m", "p", "l", "e", "t", "e", "d">>>>,
     <<<<"e", "n", "d", "e", "d">>, <<"c", "o", "m", "p", "l", "e", "t", "e", "d">>>>, <<<<"f", "a", "i", "l", "e", "d">>, <<"f", "a", "i", "l", "e", "d">>>>,
     <<<<"e", "r", "r", "o", "r">>, <<"f", "a", "i", "l", "e", "d">>>>, <<<<"b", "u", "s", "y">>, <<"b", "u", "s", "y">>>>,
     <<<<"n", "o", "-", "a", "n", "s", "w", "e", "r">>, <<"n", "o", "-", "a", "n", "s", "w", "e", "r">>>>, <<<<"c", "a", "n", "c", "e", "l", "l", "e", "d">>, <<"c", "a", "n", "c", "e", "l", "e", "d">>>>,
     <<<<"c", "a", "n", "c", "e", "l", "e", "d">>, <<"c", "a", "n", "c", "e", "l", "e", "d">>>>}

\* _map_status with the input as the fallback of the lookup.
CallInstance_map_status_verbatim(status) ==
    PyS(Lookup(status_mapping, Lower(PyS(Str(status))).v,
               Lower(PyS(Str(status))).v))

\* call/__init__.py: status_mapping.get(str(status).lower(), 'queued')
CallInstance_map_status(status) ==
    PyS(Lookup(status_mapping, Lower(PyS(Str(status))).v, <<"q", "u", "e", "u", "e", "d">>))

\* call.py: status_mapping.get(kaphila_status.lower(), 'queued')
call_py_map_status(kaphila_status) ==
    IF Lower(kaphila_status).t = "raise" THEN Lower(kaphila_status)
    ELSE PyS(Lookup(status_mapping, Lower(kaphila_status).v, <<"q", "u", "e", "u", "e", "d">>))

\* call/__init__.py: _format_phone, which reads str(phone).
CallInstance_format_phone(phone) ==
    IF ~Truthy(phone) THEN PyS(<<>>)
    ELSE LET clean == SelectSeq(Str(phone),
                                LAMBDA c : IsDigit(c) \/ c = "+")
         IN IF Len(clean) > 0 /\ ~StartsWith(clean, <<"+">>)
            THEN IF Len(clean) = 10 THEN PyS(<<"+", "1">> \o clean)
                 ELSE IF StartsWith(clean, <<"1">>) /\ Len(clean) = 11
                 THEN PyS(<<"+">> \o clean)
                 ELSE PyS(clean)
            ELSE PyS(clean)

\* call.py: _format_phone, which iterates over phone itself: a truthy int or
\* bool is not iterable.
call_py_format_phone(phone) ==
    IF ~Truthy(phone) THEN PyS(<<>>)
    ELSE IF phone.t # "str" THEN Raise("TypeError")
    ELSE CallInstance_format_phone(phone)

\* call/__init__.py: _format_display_phone
CallInstance_format_display_phone(phone) ==
    IF ~Truthy(phone) \/ Len(phone.v) < 10 THEN phone
    ELSE IF StartsWith(phone.v, <<"+", "1">>) /\ Len(phone.v) = 12
    THEN PyS(<<"+", "1", " ", "(">> \o SubSeq(phone.v, 3, 5) \o <<")", " ">>
             \o SubSeq(phone.v, 6, 8) \o <<"-">> \o SubSeq(phone.v, 9, 12))
    ELSE phone

\* mapping of _extract_answered_by and of _get_answered_by.
answered_by_mapping ==
    {<<<<"H", "U", "M", "A", "N">>, <<"h", "u", "m", "a", "n">>>>, <<<<"M", "A", "C", "H", "I", "N", "E">>, <<"m", "a", "c", "h", "i", "n", "e">>>>,
     <<<<"N", "O", "T", "S", "U", "R", "E">>, <<"h", "u", "m", "a", "n">>>>, <<<<"N", "O", "T", "_", "S", "U", "R", "E">>, <<"h", "u", "m", "a", "n">>>>,
     <<<<"U", "N", "K", "N", "O", "W", "N">>, <<"u", "n", "k", "n", "o", "w", "n">>>>}

\* mapping.get(status): None where status is no key.
MappingGet(mapping, status) ==
    IF InTable(mapping, status) THEN PyS(Lookup(mapping, status, <<>>))
    ELSE PyNone

\* call/__init__.py: _extract_answered_by(payload)
CallInstance_extract_answered_by(payload) ==
    LET answered_by == Get(payload, "AnsweredBy",
                           Get(payload, "answeredBy", PyNone))
        amd_data == Get(payload, "amd", PyDict(<<>>))
        status == MethodGet(amd_data, "status", PyS(<<>>))
    IN IF Truthy(answered_by) THEN Lower(PyS(Str(answered_by)))
       ELSE IF ~Truthy(amd_data) THEN PyNone
       ELSE IF status.t = "raise" THEN status
       ELSE MappingGet(answered_by_mapping, Upper(Str(status)))

\* call.py: _get_answered_by(payload.get('amd')), whose status must be a
\* str to have upper().
call_py_get_answered_by(amd_data) ==
    LET status == MethodGet(amd_data, "status", PyS(<<>>))
    IN IF ~Truthy(amd_data) THEN PyNone
       ELSE IF status.t = "raise" THEN status
       ELSE IF status.t # "str" THEN Raise("AttributeError")
       ELSE MappingGet(answered_by_mapping, Upper(status.v))

\* _parse_date(x): None for a falsy x, else a datetime, kept as the value
\* it was parsed from; it raises for no input.
parse_date(timestamp_str) ==
    IF ~Truthy(timestamp_str) THEN PyNone
    ELSE [t |-> "datetime", v |-> Str(timestamp_str)]

\* datetime.now(timezone.utc) / datetime.utcnow()
Now == [t |-> "datetime", v |-> <<"n", "o", "w">>]

\* The account the calls belong to.
account_sid == <<"A", "C", "1">>

\* f"/2010-04-01/Accounts/{account_sid}/Calls/{self.sid}.json"
CallUri(sid) ==
    PyS(<<"/", "2", "0", "1", "0", "-", "0", "4", "-", "0", "1", "/", "A", "c", "c", "o", "u", "n", "t", "s", "/">> \o account_sid \o <<"/", "C", "a", "l", "l", "s", "/">> \o Str(sid)
        \o <<".", "j", "s", "o", "n">>)

\* The sub-resources of a call: the key of subresource_uris and the last
\* part of the locator's path.
SubresourcePaths ==
    {<<"notifications", <<"N", "o", "t", "i", "f", "i", "c", "a", "t", "i", "o", "n", "s">>>>, <<"recordings", <<"R", "e", "c", "o", "r", "d", "i", "n", "g", "s">>>>,
     <<"payments", <<"P", "a", "y", "m", "e", "n", "t", "s">>>>, <<"events", <<"E", "v", "e", "n", "t", "s">>>>,
     <<"siprec", <<"S", "i", "p", "r", "e", "c">>>>, <<"streams", <<"S", "t", "r", "e", "a", "m", "s">>>>,
     <<"user_defined_messages", <<"U", "s", "e", "r", "D", "e", "f", "i", "n", "e", "d", "M", "e", "s", "s", "a", "g", "e", "s">>>>,
     <<"user_defined_message_subscriptions",
       <<"U", "s", "e", "r", "D", "e", "f", "i", "n", "e", "d", "M", "e", "s", "s", "a", "g", "e", "S", "u", "b", "s", "c", "r", "i", "p", "t", "i", "o", "n", "s">>>>}

\* f"/2010-04-01/Accounts/{account_sid}/Calls/{self.sid}/{K}.json"
SubresourceUri(sid, path) ==
    PyS(<<"/", "2", "0", "1", "0", "-", "0", "4", "-", "0", "1", "/", "A", "c", "c", "o", "u", "n", "t", "s", "/">> \o account_sid \o <<"/", "C", "a", "l", "l", "s", "/">> \o Str(sid)
        \o <<"/">> \o path \o <<".", "j", "s", "o", "n">>)

\* self.subresource_uris of call/__init__.py, and of call.py, which has no
\* user_defined_message_subscriptions.
SubresourceUris(sid, keys) ==
    Map([k \in keys |->
            SubresourceUri(sid, (CHOOSE p \in SubresourcePaths : p[1] = k)[2])])

PackageSubresources == {p[1] : p \in SubresourcePaths}
ModuleSubresources ==
    PackageSubresources \ {"user_defined_message_subscriptions"}

\* The sub-resource properties of CallInstance in call/__init__.py, and in
\* call.py.
PackageAccessors ==
    {"recordings", "notifications", "events", "payments", "streams"}
ModuleAccessors == {"recordings", "notifications", "events"}

\* A CallInstance no __init__ has run on.
NoCall ==
    [made |-> FALSE, sid |-> PyNone, to |-> PyNone, to_formatted |-> PyNone,
     from_ |-> PyNone, status |-> PyNone, end_time |-> PyNone,
     answered_by |-> PyNone, from_city |-> PyNone, uri |-> PyNone,
     subresource_uris |-> PyNone,
     accessors |-> [k \in PackageAccessors |-> PyNone]]

\* The assignments <<attribute, value>> of an __init__ made to self in
\* order, up to the first value whose evaluation raises; each attribute is
\* assigned once.
Assign(self, steps) ==
    CHOOSE r \in
        {LET k == IF \E i \in 1..Len(st) : st[i][2].t = "raise"
                  THEN CHOOSE i \in 1..Len(st) :
                           /\ st[i][2].t = "raise"
                           /\ \A j \in 1..(i - 1) : st[j][2].t # "raise"
                  ELSE Len(st) + 1
             done(f) == \E i \in 1..(k - 1) : st[i][1] = f
         IN [self |-> [f \in DOMAIN self |->
                          IF done(f)
                          THEN st[CHOOSE i \in 1..(k - 1) : st[i][1] = f][2]
                          ELSE self[f]],
             exc |-> IF k <= Len(st) THEN st[k][2].v ELSE ""] :
         st \in {steps}} : TRUE

\* call/__init__.py: CallInstance.__init__(client, payload, account_sid,
\* sid), `generated` being what _generate_call_sid returns.
CallInstance_init(self, payload, sid, generated) ==
    IF payload.t # "data" THEN [self |-> self, exc |-> "AttributeError"]
    ELSE LET p == payload.v
             to == CallInstance_format_phone(
                       Get(p, "number", Get(p, "to", Get(p, "To", PyS(<<>>)))))
             from_ == CallInstance_format_phone(
                          Get(p, "callerId",
                              Get(p, "from_",
                                  Get(p, "from", Get(p, "From", PyS(<<>>))))))
             geo == OrChain(<<Get(p, "geography", PyDict(<<>>)),
                              Get(p, "geo", PyDict(<<>>))>>)
             new_sid == Get(p, "callId",
                            IF Truthy(sid) THEN sid ELSE generated)
         IN Assign(self,
                <<<<"sid", new_sid>>,
                  <<"to", to>>,
                  <<"to_formatted", CallInstance_format_display_phone(to)>>,
                  <<"from_", from_>>,
                  <<"status",
                    CallInstance_map_status(Get(p, "status", PyS(<<"u", "n", "k", "n", "o", "w", "n">>)))>>,
                  <<"end_time",
                    IF Truthy(Get(p, "endTime", PyNone))
                    THEN parse_date(Get(p, "endTime", PyNone)) ELSE PyNone>>,
                  <<"answered_by", CallInstance_extract_answered_by(p)>>,
                  <<"from_city",
                    MethodGet(geo, "fromCity",
                              Get(p, "fromCity", Get(p, "FromCity", PyNone)))>>,
                  <<"uri", CallUri(new_sid)>>,
                  <<"subresource_uris",
                    SubresourceUris(new_sid, PackageSubresources)>> >>)

\* call.py: CallInstance.__init__(api, payload, account_sid, sid)
call_py_init(self, payload, sid, generated) ==
    IF payload.t # "data" THEN [self |-> self, exc |-> "AttributeError"]
    ELSE LET p == payload.v
             to == call_py_format_phone(
                       Get(p, "number", Get(p, "to", PyS(<<>>))))
             from_ == call_py_format_phone(
                          Get(p, "callerId",
                              Get(p, "from_", Get(p, "from", PyS(<<>>)))))
             geo == Get(p, "geography", PyDict(<<>>))
             new_sid == Get(p, "callId",
                            IF Truthy(sid) THEN sid ELSE generated)
         IN Assign(self,
                <<<<"sid", new_sid>>,
                  <<"to", to>>,
                  <<"to_formatted", CallInstance_format_display_phone(to)>>,
                  <<"from_", from_>>,
                  <<"status",
                    call_py_map_status(Get(p, "status", PyS(<<"u", "n", "k", "n", "o", "w", "n">>)))>>,
                  <<"end_time",
                    IF Truthy(Get(p, "endTime", PyNone))
                    THEN parse_date(Get(p, "endTime", PyNone)) ELSE PyNone>>,
                  <<"answered_by",
                    call_py_get_answered_by(Get(p, "amd", PyNone))>>,
                  <<"from_city",
                    MethodGet(geo, "fromCity", Get(p, "fromCity", PyNone))>>,
                  <<"uri", CallUri(new_sid)>>,
                  <<"subresource_uris",
                    SubresourceUris(new_sid, ModuleSubresources)>> >>)

\* What an operation of CallInstance returned or raised.
Returned(op) == [op |-> op, exc |-> "", code |-> 0]
Raised(op, exc, code) == [op |-> op, exc |-> exc, code |-> code]

\* CallInstance(client, payload, account_sid, sid): the instance exists when
\* __init__ returned.
CallInstance_new(payload, sid, generated) ==
    LET made == IF variant = "package"
                THEN CallInstance_init(NoCall, payload, sid, generated)
                ELSE call_py_init(NoCall, payload, sid, generated)
    IN /\ ~call.made
       /\ callret.op = "none"
       /\ call' = IF made.exc = "" THEN [made.self EXCEPT !.made = TRUE]
                  ELSE call
       /\ callret' = IF made.exc = "" THEN Returned("CallInstance")
                     ELSE Raised("CallInstance", made.exc, 0)

\* The properties recordings, notifications, events, payments and streams
\* of CallInstance: the list made on the first access, bound to the sid the
\* instance has then, is kept in an attribute and returned on every later
\* access.  The list is given by the call_sid it was made with.
CallInstance_subresource(k) ==
    /\ call.made
    /\ k \in IF variant = "package" THEN PackageAccessors ELSE ModuleAccessors
    /\ call' = IF call.accessors[k].t = "None"
               THEN [call EXCEPT !.accessors[k] = [t |-> "list", v |-> call.sid]]
               ELSE call
    /\ callret' = Returned(k)

\* CallInstance.update with the status set before the hangup request is
\* answered.
CallInstance_update_eager(kw, response, response2) ==
    LET hangup == /\ Truthy(kw.status)
                  /\ Lower(PyS(Str(kw.status))).v = <<"c", "o", "m", "p", "l", "e", "t", "e", "d">>
        hung == [call EXCEPT !.status = PyS(<<"c", "o", "m", "p", "l", "e", "t", "e", "d">>), !.end_time = Now]
        update_data == \/ Truthy(kw.url) \/ Truthy(kw.twiml)
                       \/ Truthy(kw.status_callback)
                       \/ Truthy(kw.fallback_url)
        failed(r) == r.raised # "" \/ r.status_code \notin {200, 204}
    IN /\ call.made
       /\ variant = "package"
       /\ call' = IF hangup THEN hung ELSE call
       /\ callret' =
              IF hangup /\ failed(response)
              THEN Raised("update", "TwilioRestException", 0)
              ELSE IF update_data /\ failed(response2)
              THEN Raised("update", "TwilioRestException", 0)
              ELSE Returned("update")

\* call/__init__.py: CallInstance.update, for the answers response (to the
\* hangup request) and response2 (to the update request) of the transport.
CallInstance_update(kw, response, response2) ==
    LET hangup == /\ Truthy(kw.status)
                  /\ Lower(PyS(Str(kw.status))).v = <<"c", "o", "m", "p", "l", "e", "t", "e", "d">>
        hung == [call EXCEPT !.status = PyS(<<"c", "o", "m", "p", "l", "e", "t", "e", "d">>), !.end_time = Now]
        update_data == \/ Truthy(kw.url) \/ Truthy(kw.twiml)
                       \/ Truthy(kw.status_callback)
                       \/ Truthy(kw.fallback_url)
        failed(r) == r.raised # "" \/ r.status_code \notin {200, 204}
    IN /\ call.made
       /\ variant = "package"
       /\ call' = IF hangup /\ ~failed(response) THEN hung ELSE call
       /\ callret' =
              IF hangup /\ failed(response)
              THEN Raised("update", "TwilioRestException", 0)
              ELSE IF update_data /\ failed(response2)
              THEN Raised("update", "TwilioRestException", 0)
              ELSE Returned("update")

\* call.py: CallInstance.update, which looks at no status code and has no
\* fallback_url branch.
call_py_update(kw, response, response2) ==
    LET hangup == /\ Truthy(kw.status)
                  /\ Lower(kw.status).v = <<"c", "o", "m", "p", "l", "e", "t", "e", "d">>
        hung == [call EXCEPT !.status = PyS(<<"c", "o", "m", "p", "l", "e", "t", "e", "d">>), !.end_time = Now]
        update_data == \/ Truthy(kw.url) \/ Truthy(kw.twiml)
                       \/ Truthy(kw.status_callback)
    IN /\ call.made
       /\ variant = "module"
       /\ call' = IF hangup /\ response.raised = "" THEN hung ELSE call
       /\ callret' =
              IF hangup /\ response.raised # ""
              THEN Raised("update", "TwilioRestException", 0)
              ELSE IF update_data /\ response2.raised # ""
              THEN Raised("update", "TwilioRestException", 0)
              ELSE Returned("update")

\* call/__init__.py: CallInstance.fetch.  __init__ runs on the instance
\* itself, so what it assigned before raising stays assigned.
CallInstance_fetch(response, generated) ==
    LET again == CallInstance_init(call, response.json, call.sid, generated)
        fresh == /\ response.raised = ""
                 /\ response.status_code = 200
                 /\ response.json.t # "raise"
    IN /\ call.made
       /\ variant = "package"
       /\ call' = IF fresh THEN again.self ELSE call
       /\ callret' =
              IF fresh /\ again.exc = "" THEN Returned("fetch")
              ELSE IF response.raised = "" /\ response.status_code = 404
              THEN Raised("fetch", "TwilioRestException", 20404)
              ELSE Raised("fetch", "TwilioRestException", 0)

\* call.py: CallInstance.fetch, which returns self for every answer other
\* than 200.
call_py_fetch(response, generated) ==
    LET again == call_py_init(call, response.json, call.sid, generated)
        fresh == /\ response.raised = ""
                 /\ response.status_code = 200
                 /\ response.json.t # "raise"
    IN /\ call.made
       /\ variant = "module"
       /\ call' = IF fresh THEN again.self ELSE call
       /\ callret' =
              IF response.raised # "" THEN Raised("fetch", "TwilioRestException", 0)
              ELSE IF response.status_code # 200 THEN Returned("fetch")
              ELSE IF fresh /\ again.exc = "" THEN Returned("fetch")
              ELSE Raised("fetch", "TwilioRestException", 0)

(***************************************************************************)
(* The payloads and transport answers a CallInstance is given.             *)
(***************************************************************************)
\* Fields of call payloads: <<key, value>>.
CallFields ==
    {<<"status", PyS(<<"A", "N", "S", "W", "E", "R", "E", "D">>)>>, <<"status", PyS(<<"e", "n", "d", "e", "d">>)>>,
     <<"status", PyS(<<"C", "a", "n", "c", "e", "l", "l", "e", "d">>)>>, <<"status", PyS(<<"e", "r", "r", "o", "r">>)>>,
     <<"status", PyS(<<"a", "c", "t", "i", "v", "e">>)>>, <<"status", PyS(<<"r", "i", "n", "g", "i", "n", "g">>)>>,
     <<"status", PyS(<<"f", "i", "n", "i", "s", "h", "e", "d">>)>>, <<"status", PyS(<<"n", "o", "a", "n", "s", "w", "e", "r">>)>>,
     <<"status", PyS(<<"w", "e", "i", "r", "d">>)>>, <<"status", PyS(<<"N", "O", "T", "S", "U", "R", "E">>)>>,
     <<"status", PyS(<<>>)>>, <<"status", PyInt(200)>>,
     <<"status", PyNone>>,
     <<"amd", PyDict(<< <<"status", PyS(<<"H", "U", "M", "A", "N">>)>> >>)>>,
     <<"amd", PyDict(<< <<"status", PyS(<<"m", "a", "c", "h", "i", "n", "e">>)>> >>)>>,
     <<"amd", PyDict(<< <<"status", PyS(<<"N", "O", "T", "S", "U", "R", "E">>)>> >>)>>,
     <<"amd", PyDict(<< <<"status", PyS(<<"N", "O", "T", "_", "S", "U", "R", "E">>)>> >>)>>,
     <<"amd", PyDict(<< <<"status", PyS(<<"U", "N", "K", "N", "O", "W", "N">>)>> >>)>>,
     <<"amd", PyDict(<< <<"status", PyS(<<"F", "A", "X">>)>> >>)>>,
     <<"amd", PyDict(<< <<"status", PyS(<<"b", "u", "s", "y">>)>> >>)>>,
     <<"amd", PyDict(<< <<"status", PyInt(1)>> >>)>>,
     <<"amd", PyDict(<< <<"confidence", PyInt(1)>> >>)>>,
     <<"amd", PyS(<<"m", "a", "c", "h", "i", "n", "e">>)>>, <<"amd", PyNone>>,
     <<"answeredBy", PyS(<<"r", "o", "b", "o", "t">>)>>, <<"AnsweredBy", PyS(<<"H", "U", "M", "A", "N">>)>>,
     <<"answeredBy", PyS(<<>>)>>,
     <<"callId", PyS(<<"C", "A", "2">>)>>, <<"callId", PyS(<<>>)>>,
     <<"number", PyS(<<"5", "5", "5", "1", "2", "3", "4", "5", "6", "7">>)>>, <<"to", PyInt(2025550123)>>,
     <<"from", PyS(<<"+", "1", " ", "(", "5", "5", "5", ")", " ", "1", "2", "3", "-", "4", "5", "6", "7">>)>>, <<"callerId", PyInt(42)>>,
     <<"endTime", PyS(<<"2", "0", "1", "0", "-", "0", "8", "-", "1", "6", "T", "0", "3", ":", "4", "5", ":", "0", "1", "Z">>)>>,
     <<"geography", PyS(<<"x">>)>>, <<"geo", PyInt(0)>>}

\* The call payloads: the empty one and those of one field.
CallPayloads ==
    {[t |-> "data", v |-> <<>>]}
    \cup {[t |-> "data", v |-> f[1] :> f[2]] : f \in CallFields}

\* What the transport answers to a request: an exception raised, or a
\* response with a status code and a body for json().
Responses ==
    {[raised |-> e, status_code |-> 0, json |-> PyNone] :
         e \in {"TwilioRestException", "ConnectionError"}}
    \cup {[raised |-> "", status_code |-> c, json |-> [t |-> "data", v |-> <<>>]] :
              c \in {200, 204, 404, 500}}

\* The answers to the GET of fetch: those above, and 200 with a body.
FetchBodies ==
    {[t |-> "data", v |-> f[1] :> f[2]] :
         f \in {<<"status", PyS(<<"e", "n", "d", "e", "d">>)>>, <<"status", PyS(<<"w", "e", "i", "r", "d">>)>>,
                <<"status", PyInt(200)>>, <<"callId", PyS(<<"C", "A", "2">>)>>,
                <<"amd", PyS(<<"m", "a", "c", "h", "i", "n", "e">>)>>}}
    \cup {PyList(<<>>), Raise("ValueError")}
FetchResponses ==
    Responses
    \cup {[raised |-> "", status_code |-> 200, json |-> b] : b \in FetchBodies}

\* The keyword arguments of update.
UpdateCalls ==
    {[status |-> s, url |-> u, twiml |-> PyNone, status_callback |-> PyNone,
      fallback_url |-> PyNone] :
         s \in {PyNone, PyS(<<"C", "o", "m", "p", "l", "e", "t", "e", "d">>), PyS(<<"c", "a", "n", "c", "e", "l", "e", "d">>)},
         u \in {PyNone, PyS(<<"h", "t", "t", "p", ":", "/", "/", "x">>)}}
    \cup {[status |-> PyNone, url |-> PyNone, twiml |-> PyNone,
            status_callback |-> PyNone, fallback_url |-> PyS(<<"h", "t", "t", "p", ":", "/", "/", "y">>)]}

\* The payloads a CallInstance that is then updated and fetched is made of.
CallSeeds ==
    {[t |-> "data", v |-> <<>>]}
    \cup {[t |-> "data", v |-> f[1] :> f[2]] :
              f \in {<<"status", PyS(<<"A", "N", "S", "W", "E", "R", "E", "D">>)>>,
                     <<"status", PyS(<<"w", "e", "i", "r", "d">>)>>,
                     <<"callId", PyS(<<>>)>>,
                     <<"endTime", PyS(<<"2", "0", "1", "0", "-", "0", "8", "-", "1", "6", "T", "0", "3", ":", "4", "5", ":", "0", "1", "Z">>)>>,
                     <<"amd", PyDict(<< <<"status", PyS(<<"H", "U", "M", "A", "N">>)>> >>)>>}}

\* What _generate_call_sid may return, and the sid a caller may pass.
GeneratedSids == {PyS(<<"C", "A", "1", "7", "0", "0", "0", "0", "0", "0", "0", "0", "d", "e", "a", "d", "b", "e", "e", "f">>)}
SidArguments == {PyNone, PyS(<<"C", "A", "7">>)}

NoCallInstance ==
    /\ call = NoCall
    /\ callret = [op |-> "none", exc |-> "", code |-> 0]
    /\ variant = "package"

NoPure ==
    /\ input = PyNone
    /\ output = PyNone

NoRest == NoCallInstance /\ NoPure

(***************************************************************************)
(* The specification of a CallInstance: it is made from a payload, then    *)
(* updated and fetched.                                                    *)
(***************************************************************************)
InitCall ==
    /\ elems = <<Element("Response")>>
    /\ responses = {1}
    /\ wrappers = {}
    /\ loop = <<>>
    /\ last = [op |-> "VoiceResponse", on |-> 1, kw |-> PyNone, node |-> 1,
               ret |-> "self"]
    /\ born = <<[by |-> 0, r |-> 1, k |-> 0]>>
    /\ calls = << <<>> >>
    /\ ncalls = 0
    /\ request \in CallSeeds
    /\ client = 0
    /\ contexts = <<>>
    /\ returned = [op |-> "none", exc |-> "", map |-> <<>>, got |-> 0]
    /\ history = <<>>
    /\ call = NoCall
    /\ callret = [op |-> "none", exc |-> "", code |-> 0]
    /\ variant \in {"package", "module"}
    /\ NoPure

NextCall ==
    \/ /\ \E sid \in SidArguments, generated \in GeneratedSids :
              CallInstance_new(request, sid, generated)
       /\ UNCHANGED <<docvars, hookvars, variant, purevars>>
    \/ /\ \E kw \in UpdateCalls, response \in Responses,
             response2 \in Responses :
              CallInstance_update(kw, response, response2)
       /\ UNCHANGED <<docvars, hookvars, variant, purevars>>
    \/ /\ \E kw \in UpdateCalls, response \in Responses,
             response2 \in Responses :
              call_py_update(kw, response, response2)
       /\ UNCHANGED <<docvars, hookvars, variant, purevars>>
    \/ /\ \E response \in FetchResponses, generated \in GeneratedSids :
              CallInstance_fetch(response, generated)
       /\ UNCHANGED <<docvars, hookvars, variant, purevars>>
    \/ /\ \E response \in FetchResponses, generated \in GeneratedSids :
              call_py_fetch(response, generated)
       /\ UNCHANGED <<docvars, hookvars, variant, purevars>>

SpecCall == InitCall /\ [][NextCall]_vars

(***************************************************************************)
(* The transport and the operations on it: Client.request,                 *)
(* CallList.create, CallInstance.delete and MessageList.                   *)
(***************************************************************************)
\* The code of an error: 0 stands for None.
CodeOf(x) == IF x.t = "int" THEN x.v ELSE 0

\* What Client.request gives its caller: a response, or an exception of
\* class raised with the code and the status it carries.
Answer(raised, status_code, json, code) ==
    [raised |-> raised, status_code |-> status_code, json |-> json,
     code |-> code]

\* Client.request with every status code returned to the caller.
Client_request_lenient(outcome) ==
    IF outcome.raised # ""
    THEN Answer("TwilioRestException", 0, PyNone, 0)
    ELSE Answer("", outcome.status_code, outcome.json, 0)

\* rest/__init__.py: Client.request, for what requests.request does
\* (outcome: an exception raised, or a response with a status code and a
\* body, None for an empty one).  A response is returned when its status is
\* 2xx; every other response and every exception of requests becomes a
\* TwilioRestException; another exception leaves as it is.
Client_request(outcome) ==
    LET error_data == IF outcome.json.t = "None" THEN Raise("ValueError")
                      ELSE outcome.json
    IN CASE outcome.raised = "Timeout" ->
                Answer("TwilioRestException", 0, PyNone, 20008)
         [] outcome.raised = "ConnectionError" ->
                Answer("TwilioRestException", 0, PyNone, 20003)
         [] outcome.raised = "RequestException" ->
                Answer("TwilioRestException", 0, PyNone, 0)
         [] outcome.raised \notin {"", "Timeout", "ConnectionError",
                                   "RequestException"} ->
                Answer(outcome.raised, 0, PyNone, 0)
         [] OTHER ->
                IF 200 <= outcome.status_code /\ outcome.status_code < 300
                THEN Answer("", outcome.status_code, outcome.json, 0)
                ELSE IF error_data.t = "raise"
                THEN Answer("TwilioRestException", outcome.status_code,
                            PyNone, 0)
                ELSE IF error_data.t = "data"
                THEN Answer("TwilioRestException", outcome.status_code,
                            PyNone,
                            CodeOf(Get(error_data.v, "code", PyNone)))
                ELSE Answer("AttributeError", 0, PyNone, 0)

\* A request as the transport saw it, with what requests.request did.
Request(method, uri, data, outcome) ==
    [method |-> method, uri |-> uri, data |-> data, outcome |-> outcome]

\* call/__init__.py: call_data of CallList.create.  The keyword arguments
\* that kw does not hold keep their defaults, which add no key.
CallList_call_data(kw) ==
    (IF Truthy(kw.status_callback)
     THEN [statusCallback |-> kw.status_callback,
           statusCallbackMethod |-> PyS(Upper(<<"P", "O", "S", "T">>))]
     ELSE <<>>)
    @@ (IF Truthy(kw.url)
        THEN [webhookUrl |-> kw.url, webhookMethod |-> PyS(Upper(<<"P", "O", "S", "T">>))]
        ELSE IF Truthy(kw.twiml) THEN [twiml |-> kw.twiml]
        ELSE IF Truthy(kw.application_sid)
        THEN [applicationSid |-> kw.application_sid]
        ELSE <<>>)
    @@ [number |-> kw.to, callerId |-> OrChain(<<kw.from_, kw.caller_id>>)]

\* call.py: call_data of CallList.create.
call_py_call_data(kw) ==
    (IF Truthy(kw.twiml) THEN [twiml |-> kw.twiml] ELSE <<>>)
    @@ (IF Truthy(kw.url)
        THEN [webhookUrl |-> kw.url, webhookMethod |-> PyS(<<"P", "O", "S", "T">>)]
        ELSE IF Truthy(kw.status_callback)
        THEN [webhookUrl |-> kw.status_callback,
              webhookMethod |-> PyS(<<"P", "O", "S", "T">>)]
        ELSE IF Truthy(kw.application_sid)
        THEN [applicationSid |-> kw.application_sid]
        ELSE <<>>)
    @@ [number |-> kw.to, callerId |-> OrChain(<<kw.from_, kw.caller_id>>)]

\* What an operation did: the instance, the return and the requests sent.
Did(self, ret, sent) == [self |-> self, ret |-> ret, sent |-> sent]

\* call/__init__.py: CallList.create(to, from_, ...), for what
\* requests.request does with the request.  The instance made is the
\* CallInstance of the model, and create is the first operation of a run.
CallList_create(kw, outcome, generated) ==
    LET call_data == CallList_call_data(kw)
        sent == <<Request("POST", PyS(<<"/", "m", "a", "k", "e", "c", "a", "l", "l">>), call_data, outcome)>>
        response == Client_request(outcome)
        body == IF response.json.t = "None" THEN [t |-> "data", v |-> <<>>]
                ELSE response.json
        payload == [t |-> "data",
                    v |-> [number |-> kw.to,
                           callerId |-> OrChain(<<kw.from_, kw.caller_id>>),
                           amdEnabled |-> PyBool(FALSE),
                           webhookUrl |-> Get(call_data, "webhookUrl", PyNone),
                           record |-> PyBool(FALSE),
                           status |-> PyS(<<"q", "u", "e", "u", "e", "d">>)] @@ body.v]
        made == CallInstance_init(NoCall, payload, PyNone, generated)
        raise(code) == Raised("create", "TwilioRestException", code)
        did ==
            CASE ~Truthy(kw.to) -> Did(call, raise(21201), <<>>)
              [] Truthy(kw.to) /\ ~Truthy(kw.from_) /\ ~Truthy(kw.caller_id) ->
                     Did(call, raise(21202), <<>>)
              [] /\ Truthy(kw.to)
                 /\ Truthy(kw.from_) \/ Truthy(kw.caller_id)
                 /\ ~Truthy(kw.url) /\ ~Truthy(kw.twiml)
                 /\ ~Truthy(kw.application_sid) ->
                     Did(call, raise(21203), <<>>)
              [] OTHER ->
                     IF response.raised = "TwilioRestException"
                     THEN Did(call, raise(response.code), sent)
                     ELSE IF response.raised # ""
                     THEN Did(call, raise(21000), sent)
                     ELSE IF response.status_code \notin {200, 201}
                     THEN Did(call,
                              raise(IF response.json.t = "data"
                                    THEN CodeOf(Get(response.json.v, "code",
                                                    PyInt(21000)))
                                    ELSE 21000),
                              sent)
                     ELSE IF body.t # "data"
                     THEN Did(call, raise(21000), sent)
                     ELSE IF made.exc # ""
                     THEN Did(call, raise(21000), sent)
                     ELSE Did([made.self EXCEPT !.made = TRUE],
                              Returned("create"), sent)
    IN /\ ~call.made
       /\ callret.op = "none"
       /\ variant = "package"
       /\ call' = did.self
       /\ callret' = did.ret
       /\ input' = kw
       /\ output' = did.sent

\* call.py: CallList.create(to, from_, ...), which looks at no argument
\* before it sends the request.
call_py_create(kw, outcome, generated) ==
    LET call_data == call_py_call_data(kw)
        sent == <<Request("POST", PyS(<<"/", "m", "a", "k", "e", "c", "a", "l", "l">>), call_data, outcome)>>
        response == Client_request(outcome)
        body == IF response.json.t = "None" THEN [t |-> "data", v |-> <<>>]
                ELSE response.json
        payload == [t |-> "data",
                    v |-> [number |-> kw.to,
                           callerId |-> kw.from_,
                           amdEnabled |-> PyBool(FALSE),
                           webhookUrl |-> Get(call_data, "webhookUrl", PyNone),
                           record |-> PyBool(FALSE)] @@ body.v]
        made == call_py_init(NoCall, payload, PyNone, generated)
        raise(code) == Raised("create", "TwilioRestException", code)
        did ==
            IF response.raised = "TwilioRestException"
            THEN Did(call, raise(response.code), sent)
            ELSE IF response.raised # ""
            THEN Did(call, raise(0), sent)
            ELSE IF response.status_code \notin {200, 201}
            THEN Did(call, raise(0), sent)
            ELSE IF body.t # "data"
            THEN Did(call, raise(0), sent)
            ELSE IF made.exc # ""
            THEN Did(call, raise(0), sent)
            ELSE Did([made.self EXCEPT !.made = TRUE], Returned("create"),
                     sent)
    IN /\ ~call.made
       /\ callret.op = "none"
       /\ variant = "module"
       /\ call' = did.self
       /\ callret' = did.ret
       /\ input' = kw
       /\ output' = did.sent

\* call/__init__.py: CallInstance.delete, which sends a DELETE request and
\* returns True when the answer is 204.
CallInstance_delete(outcome) ==
    LET response == Client_request(outcome)
        sent == <<Request("DELETE", PyS(<<"/", "c", "a", "l", "l", "s", "/">> \o Str(call.sid)), PyNone,
                          outcome)>>
    IN /\ call.made
       /\ variant = "package"
       /\ call' = call
       /\ callret' =
              IF response.raised = "TwilioRestException"
              THEN Raised("delete", "TwilioRestException", response.code)
              ELSE IF response.raised # ""
              THEN Raised("delete", "TwilioRestException", 0)
              ELSE IF response.status_code = 204 THEN Returned("delete")
              ELSE IF response.status_code = 404
              THEN Raised("delete", "TwilioRestException", 20404)
              ELSE Raised("delete", "TwilioRestException", 0)
       /\ input' = PyNone
       /\ output' = sent

\* call.py: CallInstance.delete, which always raises.
call_py_delete ==
    /\ call.made
    /\ variant = "module"
    /\ call' = call
    /\ callret' = Raised("delete", "TwilioRestException", 20005)
    /\ input' = PyNone
    /\ output' = <<>>

\* message.py: MessageList.create, get and __call__ raise; list and stream
\* return an empty list and an empty iterator.  None sends a request.
MessageList_create ==
    /\ callret' = Raised("messages.create", "TwilioRestException", 20404)
    /\ input' = PyNone
    /\ output' = <<>>
    /\ UNCHANGED call

MessageList_get ==
    /\ callret' = Raised("messages.get", "TwilioRestException", 20404)
    /\ input' = PyNone
    /\ output' = <<>>
    /\ UNCHANGED call

MessageList_list ==
    /\ callret' = Returned("messages.list")
    /\ input' = PyNone
    /\ output' = <<>>
    /\ UNCHANGED call

MessageList_stream ==
    /\ callret' = Returned("messages.stream")
    /\ input' = PyNone
    /\ output' = <<>>
    /\ UNCHANGED call

\* The requests CallInstance.update sends, for what requests.request does
\* with the hangup request (outcome) and with the update request (outcome2).
CallInstance_update_requests(kw, outcome, outcome2) ==
    LET response == Client_request(outcome)
        hangup == /\ Truthy(kw.status)
                  /\ Lower(PyS(Str(kw.status))).v = <<"c", "o", "m", "p", "l", "e", "t", "e", "d">>
        hung == IF variant = "package"
                THEN response.raised = "" /\ response.status_code \in {200, 204}
                ELSE response.raised = ""
        update_data ==
            (IF Truthy(kw.fallback_url) /\ variant = "package"
             THEN [fallbackUrl |-> kw.fallback_url] ELSE <<>>)
            @@ (IF Truthy(kw.status_callback)
                THEN IF variant = "package"
                     THEN [statusCallback |-> kw.status_callback]
                     ELSE [statusCallback |-> kw.status_callback,
                           statusCallbackMethod |-> PyS(<<"P", "O", "S", "T">>)]
                ELSE <<>>)
            @@ (IF Truthy(kw.twiml) THEN [twiml |-> kw.twiml] ELSE <<>>)
            @@ (IF Truthy(kw.url)
                THEN IF variant = "package" THEN [webhookUrl |-> kw.url]
                     ELSE [webhookUrl |-> kw.url, method |-> PyS(<<"P", "O", "S", "T">>)]
                ELSE <<>>)
        uri == IF variant = "package"
               THEN PyS(<<"/", "c", "a", "l", "l", "s", "/">> \o Str(call.sid) \o <<"/", "u", "p", "d", "a", "t", "e">>)
               ELSE PyS(<<"/", "c", "a", "l", "l", "s", "/">> \o Str(call.sid))
    IN (IF hangup
        THEN <<Request("POST", PyS(<<"/", "h", "a", "n", "g", "u", "p">>), [callId |-> call.sid],
                       outcome)>>
        ELSE <<>>)
       \o (IF (hangup => hung) /\ DOMAIN update_data # {}
           THEN <<Request("POST", uri, update_data, outcome2)>>
           ELSE <<>>)

(***************************************************************************)
(* The specification of the operations on the transport: a call is         *)
(* created, updated and deleted, and messages are asked for, with every    *)
(* answer of the transport.                                                *)
(***************************************************************************)
\* What requests.request does: an exception, or a response.
TransportOutcomes ==
    {[raised |-> e, status_code |-> 0, json |-> PyNone] :
         e \in {"Timeout", "ConnectionError", "RequestException",
                "TypeError"}}
    \cup {[raised |-> "", status_code |-> c, json |-> b] :
              c \in {200, 204, 404, 500},
              b \in {PyNone, [t |-> "data", v |-> <<>>],
                     [t |-> "data", v |-> [code |-> PyInt(21211)]],
                     PyList(<<>>), Raise("ValueError")}}
    \cup {[raised |-> "", status_code |-> 201,
           json |-> [t |-> "data", v |-> [callId |-> PyS(<<"C", "A", "8">>)]]]}

\* Those the requests of update and delete are answered with.
InstanceOutcomes ==
    {[raised |-> "ConnectionError", status_code |-> 0, json |-> PyNone],
     [raised |-> "", status_code |-> 200, json |-> [t |-> "data", v |-> <<>>]],
     [raised |-> "", status_code |-> 204, json |-> PyNone],
     [raised |-> "", status_code |-> 201, json |-> PyNone],
     [raised |-> "", status_code |-> 404, json |-> PyList(<<>>)],
     [raised |-> "", status_code |-> 500,
      json |-> [t |-> "data", v |-> [code |-> PyInt(21211)]]]}

\* The keyword arguments of create.
CreateCalls ==
    {[to |-> to, from_ |-> from_, caller_id |-> caller_id, url |-> i[1],
      twiml |-> i[2], application_sid |-> i[3], status_callback |-> PyNone] :
         to \in {PyNone, PyS(<<>>), PyS(<<"5", "5", "5", "1", "2", "3", "4", "5", "6", "7">>)},
         from_ \in {PyNone, PyS(<<"5", "5", "5", "7", "6", "5", "4", "3", "2", "1">>)},
         caller_id \in {PyNone, PyS(<<"5", "5", "5", "0", "0", "0", "0", "0", "0", "0">>)},
         i \in {<<PyNone, PyNone, PyNone>>,
                <<PyS(<<>>), PyS(<<>>), PyS(<<>>)>>,
                <<PyS(<<"h", "t", "t", "p", ":", "/", "/", "x">>), PyNone, PyNone>>,
                <<PyNone, PyS(<<"<", "R", "e", "s", "p", "o", "n", "s", "e", "/", ">">>), PyNone>>,
                <<PyNone, PyNone, PyS(<<"A", "P", "1">>)>>}}
    \cup {[to |-> PyS(<<"5", "5", "5", "1", "2", "3", "4", "5", "6", "7">>), from_ |-> PyNone, caller_id |-> PyNone,
           url |-> PyNone, twiml |-> PyNone, application_sid |-> PyNone,
           status_callback |-> PyS(<<"h", "t", "t", "p", ":", "/", "/", "y">>)]}

\* The keyword arguments of update.
RestUpdates ==
    {[status |-> s, url |-> u, twiml |-> PyNone, status_callback |-> PyNone,
      fallback_url |-> PyNone] :
         s \in {PyNone, PyS(<<"c", "o", "m", "p", "l", "e", "t", "e", "d">>)}, u \in {PyNone, PyS(<<"h", "t", "t", "p", ":", "/", "/", "x">>)}}

InitRest ==
    /\ elems = <<Element("Response")>>
    /\ responses = {1}
    /\ wrappers = {}
    /\ loop = <<>>
    /\ last = [op |-> "VoiceResponse", on |-> 1, kw |-> PyNone, node |-> 1,
               ret |-> "self"]
    /\ born = <<[by |-> 0, r |-> 1, k |-> 0]>>
    /\ calls = << <<>> >>
    /\ ncalls = 0
    /\ request = [t |-> "data", v |-> <<>>]
    /\ client = 0
    /\ contexts = <<>>
    /\ returned = [op |-> "none", exc |-> "", map |-> <<>>, got |-> 0]
    /\ history = <<>>
    /\ call = NoCall
    /\ callret = [op |-> "none", exc |-> "", code |-> 0]
    /\ variant \in {"package", "module"}
    /\ input = PyNone
    /\ output = <<>>

NextRest ==
    \/ /\ \E kw \in CreateCalls, outcome \in TransportOutcomes,
             generated \in GeneratedSids :
              CallList_create(kw, outcome, generated)
       /\ UNCHANGED <<docvars, hookvars, variant>>
    \/ /\ \E kw \in CreateCalls, outcome \in TransportOutcomes,
             generated \in GeneratedSids :
              call_py_create(kw, outcome, generated)
       /\ UNCHANGED <<docvars, hookvars, variant>>
    \/ /\ \E kw \in RestUpdates, outcome \in InstanceOutcomes,
             outcome2 \in InstanceOutcomes :
              /\ CallInstance_update(kw, Client_request(outcome),
                                     Client_request(outcome2))
              /\ input' = kw
              /\ output' = CallInstance_update_requests(kw, outcome, outcome2)
       /\ UNCHANGED <<docvars, hookvars, variant>>
    \/ /\ \E kw \in RestUpdates, outcome \in InstanceOutcomes,
             outcome2 \in InstanceOutcomes :
              /\ call_py_update(kw, Client_request(outcome),
                                Client_request(outcome2))
              /\ input' = kw
              /\ output' = CallInstance_update_requests(kw, outcome, outcome2)
       /\ UNCHANGED <<docvars, hookvars, variant>>
    \/ /\ \E outcome \in InstanceOutcomes : CallInstance_delete(outcome)
       /\ UNCHANGED <<docvars, hookvars, variant>>
    \/ /\ call_py_delete
       /\ UNCHANGED <<docvars, hookvars, variant>>
    \/ /\ MessageList_create
       /\ UNCHANGED <<docvars, hookvars, variant>>
    \/ /\ MessageList_get
       /\ UNCHANGED <<docvars, hookvars, variant>>
    \/ /\ MessageList_list
       /\ UNCHANGED <<docvars, hookvars, variant>>
    \/ /\ MessageList_stream
       /\ UNCHANGED <<docvars, hookvars, variant>>

SpecRest == InitRest /\ [][NextRest]_vars

(***************************************************************************)
(* The specification of the fallback chains: the normalizer is given       *)
(* payloads that carry the keys of one chain, each absent, empty or with   *)
(* a value of its own.                                                     *)
(***************************************************************************)
\* The keys of the chains, in the order of extract_call_sid and
\* extract_from_number, each with the value it has when it has one.
CallIdKeys ==
    << <<"callId", PyS(<<"c", "1">>)>>, <<"CallSid", PyS(<<"C", "A", "2", "2">>)>>,
       <<"call_sid", PyS(<<"0", "1", "2", "3", "4", "5", "6", "7", "8", "9", "c", "3">>)>>, <<"sid", PyS(<<"C", "A", "4">>)>>,
       <<"id", PyS(<<"i", "5">>)>> >>
FromKeys ==
    << <<"from", PyS(<<"5", "5", "5", "1", "2", "3", "0", "0", "0", "1">>)>>, <<"From", PyS(<<"+", "1", "5", "5", "5", "1", "2", "3", "0", "0", "0", "2">>)>>,
       <<"callerId", PyS(<<"1", "5", "5", "5", "1", "2", "3", "0", "0", "0", "3">>)>>,
       <<"caller_id", PyS(<<"(", "5", "5", "5", ")", " ", "1", "2", "3", "-", "0", "0", "0", "4">>)>>, <<"caller", PyS(<<"0", "0", "0", "5">>)>>,
       <<"source", PyS(<<"+", "4", "4", "5", "5", "5", "1", "2", "3", "0", "0", "0", "6">>)>> >>

RECURSIVE ChainPayloads(_)
\* The payloads with each key of the chain absent, empty or with its value.
ChainPayloads(keys) ==
    IF keys = <<>> THEN {<<>>}
    ELSE LET rest == ChainPayloads(Tail(keys))
             k == keys[1][1]
         IN rest \cup {(k :> v) @@ p : v \in {PyS(<<>>), keys[1][2]},
                                       p \in rest}

\* The payloads of both chains, as they come and as events.
ChainRequests ==
    LET ps == ChainPayloads(CallIdKeys) \cup ChainPayloads(FromKeys)
    IN {[t |-> "data", v |-> p] : p \in ps}
       \cup {[t |-> "data", v |-> ("event" :> PyS(<<"c", "a", "l", "l", ".", "r", "i", "n", "g", "i", "n", "g">>)) @@ p] :
                 p \in ps}

InitChain ==
    /\ elems = <<Element("Response")>>
    /\ responses = {1}
    /\ wrappers = {}
    /\ loop = <<>>
    /\ last = [op |-> "VoiceResponse", on |-> 1, kw |-> PyNone, node |-> 1,
               ret |-> "self"]
    /\ born = <<[by |-> 0, r |-> 1, k |-> 0]>>
    /\ calls = << <<>> >>
    /\ ncalls = 0
    /\ request \in ChainRequests
    /\ client = 0
    /\ contexts = <<>>
    /\ returned = [op |-> "none", exc |-> "", map |-> <<>>, got |-> 0]
    /\ history = <<>>
    /\ NoRest

\* int(time.time()) and hash(str(data)) of the calls.
ChainClock == {1700000000}
ChainHashes == {7}

NextChain ==
    /\ \E now \in ChainClock, h \in ChainHashes : process_webhook(now, h)
    /\ UNCHANGED <<docvars, restvars>>

SpecChain == InitChain /\ [][NextChain]_vars

(***************************************************************************)
(* The specification of the sub-resources of a CallInstance: it is made    *)
(* from a payload, its sub-resource properties are read and it is fetched. *)
(***************************************************************************)
\* The sub-resource properties read.
CallAccessors == {"recordings", "events"}

\* The payloads the instance is made of.
SubSeeds ==
    {[t |-> "data", v |-> <<>>],
     [t |-> "data", v |-> [callId |-> PyS(<<"C", "A", "5">>)]],
     [t |-> "data", v |-> [status |-> PyS(<<"A", "N", "S", "W", "E", "R", "E", "D">>)]]}

\* The answers to the GET of fetch: a failure, and 200 with the record of
\* the same call, of a call with another callId, and of one whose amd
\* field is not a mapping.
SubResponses ==
    {[raised |-> "", status_code |-> 404, json |-> [t |-> "data", v |-> <<>>]]}
    \cup {[raised |-> "", status_code |-> 200, json |-> b] :
              b \in {[t |-> "data", v |-> <<>>],
                     [t |-> "data", v |-> [status |-> PyS(<<"e", "n", "d", "e", "d">>)]],
                     [t |-> "data", v |-> [callId |-> PyS(<<"C", "A", "2">>)]],
                     [t |-> "data", v |-> [callId |-> PyS(<<"C", "A", "3">>)]],
                     [t |-> "data",
                      v |-> [callId |-> PyS(<<"C", "A", "4">>),
                             amd |-> PyS(<<"m", "a", "c", "h", "i", "n", "e">>)]]}}

InitSub ==
    /\ elems = <<Element("Response")>>
    /\ responses = {1}
    /\ wrappers = {}
    /\ loop = <<>>
    /\ last = [op |-> "VoiceResponse", on |-> 1, kw |-> PyNone, node |-> 1,
               ret |-> "self"]
    /\ born = <<[by |-> 0, r |-> 1, k |-> 0]>>
    /\ calls = << <<>> >>
    /\ ncalls = 0
    /\ request \in SubSeeds
    /\ client = 0
    /\ contexts = <<>>
    /\ returned = [op |-> "none", exc |-> "", map |-> <<>>, got |-> 0]
    /\ history = <<>>
    /\ call = NoCall
    /\ callret = [op |-> "none", exc |-> "", code |-> 0]
    /\ variant \in {"package", "module"}
    /\ NoPure

NextSub ==
    \/ /\ \E sid \in SidArguments, generated \in GeneratedSids :
              CallInstance_new(request, sid, generated)
       /\ UNCHANGED <<docvars, hookvars, variant, purevars>>
    \/ /\ \E response \in SubResponses, generated \in GeneratedSids :
              CallInstance_fetch(response, generated)
       /\ UNCHANGED <<docvars, hookvars, variant, purevars>>
    \/ /\ \E response \in SubResponses, generated \in GeneratedSids :
              call_py_fetch(response, generated)
       /\ UNCHANGED <<docvars, hookvars, variant, purevars>>
    \/ /\ \E k \in CallAccessors : CallInstance_subresource(k)
       /\ UNCHANGED <<docvars, hookvars, variant, purevars>>

SpecSub == InitSub /\ [][NextSub]_vars

(***************************************************************************)
(* The specification of the two mappers: a CallInstance is made from a     *)
(* payload and the normalizer is given the same payload.                   *)
(***************************************************************************)
InitMap ==
    /\ elems = <<Element("Response")>>
    /\ responses = {1}
    /\ wrappers = {}
    /\ loop = <<>>
    /\ last = [op |-> "VoiceResponse", on |-> 1, kw |-> PyNone, node |-> 1,
               ret |-> "self"]
    /\ born = <<[by |-> 0, r |-> 1, k |-> 0]>>
    /\ calls = << <<>> >>
    /\ ncalls = 0
    /\ request \in CallPayloads
    /\ client = 0
    /\ contexts = <<>>
    /\ returned = [op |-> "none", exc |-> "", map |-> <<>>, got |-> 0]
    /\ history = <<>>
    /\ call = NoCall
    /\ callret = [op |-> "none", exc |-> "", code |-> 0]
    /\ variant \in {"package", "module"}
    /\ NoPure

NextMap ==
    \/ /\ \E sid \in SidArguments, generated \in GeneratedSids :
              CallInstance_new(request, sid, generated)
       /\ UNCHANGED <<docvars, hookvars, variant, purevars>>
    \/ /\ \E now \in Clock, h \in Hashes : process_webhook(now, h)
       /\ UNCHANGED <<docvars, restvars>>

SpecMap == InitMap /\ [][NextMap]_vars

(***************************************************************************)
(* The specification of the phone formatters: a number is given to one of  *)
(* format_phone_number and the two _format_phone, and the result to the    *)
(* same formatter again.                                                   *)
(***************************************************************************)
\* Bound: the longest run of digits in a number.
MaxDigits == 12

\* n digits, 5 5 5 1 2 3 4 5 6 7 8 9 0 ...
DigitRun(n) ==
    [i \in 1..n |-> IF i <= 3 THEN "5" ELSE DigitChars[((i - 3) % 10) + 1]]

\* The numbers given: a run of digits, a sign, a country code or punctuation
\* before it, a sign or an extension after it or a sign inside it; and a
\* number that is no str.
PhoneInputs ==
    {PyS(pre \o DigitRun(n) \o suf) :
         pre \in {<<>>, <<"+">>, <<"1">>, <<"+", "1">>, <<"(">>, <<"1", "+">>},
         n \in 0..MaxDigits,
         suf \in {<<>>, <<"+">>, <<" ", "x", "9">>, <<"+", "1", "2">>}}
    \cup {PyNone, PyInt(2025550123), PyInt(0)}

\* The state of the document model and of the objects while a pure function
\* is applied.
NoDocument ==
    /\ elems = <<Element("Response")>>
    /\ responses = {1}
    /\ wrappers = {}
    /\ loop = <<>>
    /\ last = [op |-> "VoiceResponse", on |-> 1, kw |-> PyNone, node |-> 1,
               ret |-> "self"]
    /\ born = <<[by |-> 0, r |-> 1, k |-> 0]>>
    /\ calls = << <<>> >>
    /\ ncalls = 0

InitPhone ==
    /\ NoDocument
    /\ NoHook
    /\ NoCallInstance
    /\ input \in PhoneInputs
    /\ output = <<>>

\* The formatter named f is given the number, or its own result.
ApplyFormatter(f, F(_)) ==
    /\ Len(output) < 2
    /\ output # <<>> => (output[1].f = f /\ output[1].r.t = "str")
    /\ output' = Append(output,
                        [f |-> f,
                         r |-> F(IF output = <<>> THEN input
                                 ELSE output[1].r)])
    /\ UNCHANGED <<input, docvars, hookvars, callvars>>

NextPhone ==
    \/ ApplyFormatter("format_phone_number", format_phone_number)
    \/ ApplyFormatter("CallInstance._format_phone", CallInstance_format_phone)
    \/ ApplyFormatter("call.py _format_phone", call_py_format_phone)

SpecPhone == InitPhone /\ [][NextPhone]_vars

(***************************************************************************)
(* The specification of signature validation: validate_request is given a  *)
(* token, a URL, the parameters in some order of insertion and a           *)
(* signature.                                                              *)
(***************************************************************************)
\* The items of a dict in every order of insertion.
Orders(items) ==
    {[i \in 1..Len(items) |-> items[f[i]]] :
         f \in {g \in [1..Len(items) -> 1..Len(items)] :
                    \A i, j \in 1..Len(items) : i # j => g[i] # g[j]}}

\* Requests with the signature their sender computed for them.
SignedRequests ==
    {[auth_token |-> <<"1", "2", "3", "4", "5">>,
      url |-> <<"h", "t", "t", "p", "s", ":", "/", "/", "m", "y", "c", "o", "m", "p", "a", "n", "y", ".", "c", "o", "m", "/", "m", "y", "a", "p", "p", ".", "p", "h", "p", "?", "f", "o", "o", "=", "1", "&", "b", "a", "r", "=", "2">>,
      params |-> p, signature |-> PyS(<<"K", "/", "D", "6", "i", "e", "k", "P", "v", "G", "6", "z", "Z", "R", "4", "y", "P", "E", "N", "e", "C", "P", "r", "q", "j", "y", "M", "=">>)] :
         p \in Orders(<< <<<<"C", "a", "l", "l", "S", "i", "d">>, PyS(<<"C", "A", "1", "2", "3", "4", "5", "6", "7", "8", "9", "0", "A", "B", "C", "D", "E">>)>>,
                         <<<<"D", "i", "g", "i", "t", "s">>, PyS(<<"1", "2", "3", "4">>)>>,
                         <<<<"F", "r", "o", "m">>, PyS(<<"+", "1", "2", "3", "4", "9", "0", "1", "3", "0", "3", "0">>)>> >>)}
    \cup {[auth_token |-> <<"1", "2", "3", "4", "5">>,
           url |-> <<"h", "t", "t", "p", "s", ":", "/", "/", "m", "y", "c", "o", "m", "p", "a", "n", "y", ".", "c", "o", "m", "/", "m", "y", "a", "p", "p", ".", "p", "h", "p", "?", "f", "o", "o", "=", "1", "&", "b", "a", "r", "=", "2">>,
           params |-> p, signature |-> PyS(<<"1", "7", "a", "W", "g", "3", "E", "D", "M", "g", "/", "p", "M", "z", "0", "1", "c", "V", "T", "P", "W", "m", "X", "Y", "e", "K", "w", "=">>)] :
              p \in Orders(<< <<<<"t", "o">>, PyS(<<"1">>)>>, <<<<"F", "r", "o", "m">>, PyS(<<"2">>)>> >>)}
    \cup {[auth_token |-> <<"1", "2", "3", "4", "5">>,
           url |-> <<"h", "t", "t", "p", "s", ":", "/", "/", "m", "y", "c", "o", "m", "p", "a", "n", "y", ".", "c", "o", "m", "/", "m", "y", "a", "p", "p", ".", "p", "h", "p", "?", "f", "o", "o", "=", "1", "&", "b", "a", "r", "=", "2">>,
           params |-> p, signature |-> PyS(<<"F", "w", "f", "7", "n", "x", "R", "7", "E", "v", "a", "F", "i", "9", "E", "s", "g", "3", "g", "X", "h", "i", "E", "n", "H", "V", "c", "=">>)] :
              p \in Orders(<< <<<<"a">>, PyS(<<"b", "c">>)>>, <<<<"a", "b">>, PyS(<<"c">>)>> >>)}
    \cup {[auth_token |-> <<"1", "2", "3", "4", "5">>,
           url |-> <<"h", "t", "t", "p", "s", ":", "/", "/", "m", "y", "c", "o", "m", "p", "a", "n", "y", ".", "c", "o", "m", "/", "m", "y", "a", "p", "p", ".", "p", "h", "p", "?", "f", "o", "o", "=", "1", "&", "b", "a", "r", "=", "2">>,
           params |-> << <<<<"D", "i", "g", "i", "t", "s">>, PyInt(5)>> >>,
           signature |-> PyS(<<"p", "v", "p", "+", "U", "M", "U", "n", "1", "F", "w", "s", "2", "i", "h", "r", "7", "p", "Q", "K", "l", "L", "3", "X", "c", "5", "c", "=">>)],
          [auth_token |-> <<"1", "2", "3", "4", "5">>,
           url |-> <<"h", "t", "t", "p", "s", ":", "/", "/", "m", "y", "c", "o", "m", "p", "a", "n", "y", ".", "c", "o", "m", "/", "m", "y", "a", "p", "p", ".", "p", "h", "p", "?", "f", "o", "o", "=", "1", "&", "b", "a", "r", "=", "2">>,
           params |-> <<>>,
           signature |-> PyS(<<"z", "Y", "Q", "T", "Y", "r", "R", "W", "X", "E", "7", "L", "t", "z", "b", "G", "4", "P", "f", "P", "7", "/", "b", "k", "k", "G", "o", "=">>)],
          [auth_token |-> <<"s", "e", "c", "r", "e", "t">>,
           url |-> <<"h", "t", "t", "p", "s", ":", "/", "/", "m", "y", "c", "o", "m", "p", "a", "n", "y", ".", "c", "o", "m", "/", "m", "y", "a", "p", "p", ".", "p", "h", "p", "?", "f", "o", "o", "=", "1", "&", "b", "a", "r", "=", "2">>,
           params |-> <<>>,
           signature |-> PyS(<<"q", "x", "q", "D", "M", "j", "p", "G", "1", "j", "c", "O", "N", "b", "A", "R", "D", "L", "/", "M", "4", "C", "s", "D", "w", "+", "4", "=">>)]}

\* The positions at which a signature is altered.
AlteredAt == {1, 14, 27, 28}

\* sig with another character at position i.
Altered(sig, i, c) ==
    [sig EXCEPT ![i] = IF @ = c THEN "B" ELSE c]

\* The signatures a request arrives with: the sender's, that one with a
\* character altered, dropped or added, an empty one, and none.
Signatures(sig) ==
    {PyS(sig), PyS(SubSeq(sig, 1, Len(sig) - 1)), PyS(sig \o <<"=">>),
     PyS(<<>>), PyS(Altered(sig, 3, e_acute)), PyNone}
    \cup {PyS(Altered(sig, i, "A")) : i \in AlteredAt}

ValidateInputs ==
    UNION {{[r EXCEPT !.signature = s] : s \in Signatures(r.signature.v)} :
               r \in SignedRequests}
    \cup {[r EXCEPT !.signature = q.signature] : r, q \in SignedRequests}

InitValidate ==
    /\ NoDocument
    /\ NoHook
    /\ NoCallInstance
    /\ input \in ValidateInputs
    /\ output = PyNone

NextValidate ==
    /\ validate_request(input.auth_token, input.url, input.params,
                        input.signature)
    /\ UNCHANGED <<input, docvars, hookvars, callvars>>

SpecValidate == InitValidate /\ [][NextValidate]_vars

(***************************************************************************)
(* The specification of the registry: process_webhook is called several    *)
(* times, with requests for the same and for other calls and with and      *)
(* without a client, and get_client_for_call in between.                   *)
(***************************************************************************)
RegistryRequests ==
    {[t |-> "data",
      v |-> [CallSid |-> PyS(<<"C", "A", "1", "2", "3">>), From |-> PyS(<<"+", "1", "5", "5", "5", "1", "2", "3", "4", "5", "6", "7">>)]],
     [t |-> "data",
      v |-> [event |-> PyS(<<"d", "t", "m", "f", ".", "r", "e", "c", "e", "i", "v", "e", "d">>), digit |-> PyS(<<"5">>),
             callId |-> PyS(<<"C", "A", "7">>)]],
     PyS(<<"C", "a", "l", "l", "S", "i", "d", "=", "C", "A", "7", "&", "F", "r", "o", "m", "=", "1", "5", "5", "5", "1", "2", "3", "4", "5", "6", "7", "&", "x">>),
     PyNone}

\* None and two clients.
RegistryClients == {0, 1, 2}

\* The call identifiers looked up: of the requests, and one of no request.
RegistrySids == {<<"C", "A", "1", "2", "3">>, <<"C", "A", "7">>, <<"C", "A", "9">>}

\* One reading of the clock and one hash for a generated identifier.
RegistryClock == {1700000000}
RegistryHashes == {7}

InitRegistry ==
    /\ NoDocument
    /\ NoHook
    /\ NoRest

NextRegistry ==
    \/ /\ \E request_data \in RegistryRequests, a_client \in RegistryClients,
             now \in RegistryClock, h \in RegistryHashes :
              WebhookHelper_process_webhook(request_data, a_client, now, h)
       /\ UNCHANGED <<docvars, restvars>>
    \/ /\ \E call_sid \in RegistrySids : get_client_for_call(call_sid)
       /\ UNCHANGED <<docvars, restvars>>

SpecRegistry == InitRegistry /\ [][NextRegistry]_vars

(***************************************************************************)
(* The specification of the registry's lifetime: process_webhook,          *)
(* validate_request and get_client_for_call are called in any order.       *)
(***************************************************************************)
LifetimeRequests ==
    {[t |-> "data",
      v |-> [CallSid |-> PyS(<<"C", "A", "1", "2", "3">>), From |-> PyS(<<"+", "1", "5", "5", "5", "1", "2", "3", "4", "5", "6", "7">>)]],
     PyS(<<"C", "a", "l", "l", "S", "i", "d", "=", "C", "A", "7", "&", "F", "r", "o", "m", "=", "1", "5", "5", "5", "1", "2", "3", "4", "5", "6", "7", "&", "x">>)}

\* None and a client.
LifetimeClients == {0, 1}

\* A request with its signature.
LifetimeValidations ==
    {[auth_token |-> <<"1", "2", "3", "4", "5">>,
      url |-> <<"h", "t", "t", "p", "s", ":", "/", "/", "m", "y", "c", "o", "m", "p", "a", "n", "y", ".", "c", "o", "m", "/", "m", "y", "a", "p", "p", ".", "p", "h", "p", "?", "f", "o", "o", "=", "1", "&", "b", "a", "r", "=", "2">>,
      params |-> <<>>,
      signature |-> PyS(<<"z", "Y", "Q", "T", "Y", "r", "R", "W", "X", "E", "7", "L", "t", "z", "b", "G", "4", "P", "f", "P", "7", "/", "b", "k", "k", "G", "o", "=">>)]}

\* The call identifiers looked up: one of the requests, one of no request.
LifetimeSids == {<<"C", "A", "1", "2", "3">>, <<"C", "A", "9">>}

InitLifetime ==
    /\ NoDocument
    /\ NoHook
    /\ NoRest

NextLifetime ==
    \/ /\ \E request_data \in LifetimeRequests, a_client \in LifetimeClients,
             now \in RegistryClock, h \in RegistryHashes :
              WebhookHelper_process_webhook(request_data, a_client, now, h)
       /\ UNCHANGED <<docvars, restvars>>
    \/ /\ \E v \in LifetimeValidations :
              validate_request(v.auth_token, v.url, v.params, v.signature)
       /\ UNCHANGED <<docvars, hookvars, callvars, input>>
    \/ /\ \E call_sid \in LifetimeSids : get_client_for_call(call_sid)
       /\ UNCHANGED <<docvars, restvars>>

SpecLifetime == InitLifetime /\ [][NextLifetime]_vars

(***************************************************************************)
(* The specification of the document model.                                *)
(***************************************************************************)
Init ==
    /\ elems = <<Element("Response")>>
    /\ responses = {1}
    /\ wrappers = {}
    /\ loop = <<>>
    /\ last = [op |-> "VoiceResponse", on |-> 1, kw |-> PyNone, node |-> 1,
               ret |-> "self"]
    /\ born = <<[by |-> 0, r |-> 1, k |-> 0]>>
    /\ calls = << <<>> >>
    /\ ncalls = 0
    /\ NoHook
    /\ NoRest

Call ==
    \/ VoiceResponse_init
    \/ \E r \in responses, kw \in SayCalls : VoiceResponse_say(r, kw)
    \/ \E r \in responses, kw \in PlayCalls : VoiceResponse_play(r, kw)
    \/ \E r \in responses, kw \in GatherCalls : VoiceResponse_gather(r, kw)
    \/ \E r \in responses, kw \in RecordCalls : VoiceResponse_record(r, kw)
    \/ \E r \in responses, kw \in DialCalls : VoiceResponse_dial(r, kw)
    \/ \E r \in responses : VoiceResponse_hangup(r)
    \/ \E r \in responses, kw \in RedirectCalls : VoiceResponse_redirect(r, kw)
    \/ \E r \in responses, kw \in RejectCalls : VoiceResponse_reject(r, kw)
    \/ \E r \in responses, kw \in PauseCalls : VoiceResponse_pause(r, kw)
    \/ \E r \in responses, kw \in EnqueueCalls : VoiceResponse_enqueue(r, kw)
    \/ \E r \in responses : VoiceResponse_leave(r)
    \/ \E r \in responses, kw \in ReferCalls : VoiceResponse_refer(r, kw)
    \/ \E r \in responses : VoiceResponse_start(r)
    \/ \E r \in responses, kw \in StopCalls : VoiceResponse_stop(r, kw)
    \/ \E r \in responses, kw \in ConnectCalls : VoiceResponse_connect(r, kw)
    \/ \E r \in responses : VoiceResponse_echo(r)
    \/ \E r \in responses, twiml \in AppendArgs : VoiceResponse_append(r, twiml)
    \/ Gather_init
    \/ \E w \in wrappers, kw \in GatherSayCalls : Gather_say(w, kw)
    \/ \E w \in wrappers, kw \in GatherPlayCalls : Gather_play(w, kw)
    \/ \E w \in wrappers, kw \in PauseCalls : Gather_pause(w, kw)
    \/ \E w \in wrappers, url \in PlayUrls : Play_call(w, url)
    \/ \E w \in wrappers, kw \in NumberCalls : Dial_number(w, kw)
    \/ \E w \in wrappers, kw \in SipCalls : Dial_sip(w, kw)
    \/ \E w \in wrappers, kw \in ClientCalls : Dial_client(w, kw)
    \/ \E w \in wrappers, kw \in ConferenceCalls : Dial_conference(w, kw)
    \/ \E w \in wrappers, kw \in QueueCalls : Dial_queue(w, kw)
    \/ \E w \in wrappers, kw \in SimCalls : Dial_sim(w, kw)
    \/ \E w \in wrappers, a \in TaskAttributes : Enqueue_task(w, a)
    \/ \E w \in wrappers, kw \in ReferSipCalls : Refer_sip(w, kw)
    \/ \E w \in wrappers, kw \in StartStreamCalls : Start_stream(w, kw)
    \/ \E w \in wrappers, kw \in ConnectStreamCalls : Connect_stream(w, kw)

\* The calls that read a response and change nothing in it.
Observe ==
    \/ \E r \in responses : TwiML_to_xml(r)
    \/ \E r1 \in responses, r2 \in responses : TwiML_eq_call(r1, r2)

\* A run makes at most MaxCalls calls; the loop of a response appended to
\* itself stops at MaxChildren children.
Next ==
    \/ ncalls < MaxCalls /\ Call /\ UNCHANGED <<hookvars, restvars>>
    \/ /\ loop # <<>>
       /\ loop[1].src = loop[1].dst =>
              Len(elems[loop[1].dst].children) < MaxChildren
       /\ AppendNext
       /\ UNCHANGED <<hookvars, restvars>>
    \/ Observe /\ UNCHANGED <<hookvars, restvars>>

Spec == Init /\ [][Next]_vars

(***************************************************************************)
(* A second specification, for comparing documents: two responses, built   *)
(* by calls on them and on their scoped builders, and compared.            *)
(***************************************************************************)
\* Bound: the number of builder calls made on the two responses.
MaxPairCalls == 3

PairSayCalls ==
    Vary(say_defaults,
         {<<"message", PyS(s_lt)>>, <<"message", PyS(s_amp_lt)>>,
          <<"loop", PyInt(3)>>})

InitPair ==
    /\ elems = <<Element("Response"), Element("Response")>>
    /\ responses = {1, 2}
    /\ wrappers = {}
    /\ loop = <<>>
    /\ last = [op |-> "VoiceResponse", on |-> 2, kw |-> PyNone, node |-> 2,
               ret |-> "self"]
    /\ born = <<[by |-> 0, r |-> 1, k |-> 0], [by |-> 0, r |-> 2, k |-> 0]>>
    /\ calls = << <<>>, <<>> >>
    /\ ncalls = 0
    /\ NoHook
    /\ NoRest

PairCall ==
    \/ \E r \in responses, kw \in PairSayCalls : VoiceResponse_say(r, kw)
    \/ \E r \in responses : VoiceResponse_play(r, play_defaults)
    \/ \E r \in responses : VoiceResponse_gather(r, gather_defaults)
    \/ \E r \in responses : VoiceResponse_hangup(r)
    \/ \E w \in wrappers, kw \in GatherSayCalls : Gather_say(w, kw)
    \/ \E w \in wrappers, url \in PlayUrls : Play_call(w, url)

NextPair ==
    \/ ncalls < MaxPairCalls /\ PairCall /\ UNCHANGED <<hookvars, restvars>>
    \/ /\ \E r1 \in responses :
              \E r2 \in responses \ {r1} : TwiML_eq_call(r1, r2)
       /\ UNCHANGED <<hookvars, restvars>>

SpecPair == InitPair /\ [][NextPair]_vars

(***************************************************************************)
(* A third specification, for the normalizer: a request is drawn, handed   *)
(* to process_webhook, and the stored client is looked up.                 *)
(***************************************************************************)
InitWebhook ==
    /\ elems = <<Element("Response")>>
    /\ responses = {1}
    /\ wrappers = {}
    /\ loop = <<>>
    /\ last = [op |-> "VoiceResponse", on |-> 1, kw |-> PyNone, node |-> 1,
               ret |-> "self"]
    /\ born = <<[by |-> 0, r |-> 1, k |-> 0]>>
    /\ calls = << <<>> >>
    /\ ncalls = 0
    /\ InitHook
    /\ NoRest

SpecWebhook == InitWebhook /\ [][NextWebhook]_vars

(***************************************************************************)
(* Properties.                                                             *)
(***************************************************************************)
RECURSIVE Desc(_, _)
\* The elements of the document under n, n included.
Desc(es, n) ==
    {n} \cup UNION {Desc(es, es[n].children[i]) : i \in 1..Len(es[n].children)}

\* The elements of the documents of the responses.
InDocument == UNION {Desc(elems, r) : r \in responses}

\* The grammar table: the tags a parent's children may carry.
AllowedChildren(tag) ==
    CASE tag = "Response" ->
           {"Say", "Play", "Gather", "Record", "Dial", "Hangup", "Redirect",
            "Reject", "Pause", "Enqueue", "Leave", "Refer", "Start", "Stop",
            "Connect", "Echo"}
      [] tag = "Gather" -> {"Say", "Play", "Pause"}
      [] tag = "Dial" ->
           {"Number", "Sip", "Client", "Conference", "Queue", "Sim"}
      [] tag = "Refer" -> {"Sip"}
      [] tag \in {"Start", "Connect"} -> {"Stream"}
      [] tag = "Enqueue" -> {"Task"}
      [] OTHER -> {}

\* C1: in every document, every node's children carry only tags that the
\* grammar table allows for the node's tag.
C1_GrammarRespected ==
    \A n \in InDocument :
        \A i \in 1..Len(elems[n].children) :
            elems[elems[n].children[i]].tag \in AllowedChildren(elems[n].tag)

\* How often element n is listed as a child, over all child lists.
Listed(n) ==
    Cardinality(UNION {
        {<<m, i>> : i \in {j \in 1..Len(elems[m].children) :
                              elems[m].children[j] = n}} : m \in Ids})

\* C2: every document is a tree: its root is a Response that is nobody's
\* child, and every other node of it is listed as a child exactly once.
C2_DocumentIsTree ==
    \A r \in responses :
        /\ elems[r].tag = "Response"
        /\ Listed(r) = 0
        /\ \A n \in Desc(elems, r) \ {r} : Listed(n) = 1

\* The defaults the builders' docstrings document, as <<tag, attribute,
\* default>>.
s_5 == <<"5">>
s_1 == <<"1">>
s_30 == <<"3", "0">>
s_3600 == <<"3", "6", "0", "0">>
s_14400 == <<"1", "4", "4", "0", "0">>

DocumentedDefaults ==
    {<<"Say", "loop", s_1>>, <<"Play", "loop", s_1>>,
     <<"Gather", "method", POST>>, <<"Gather", "timeout", s_5>>,
     <<"Gather", "finishOnKey", s_hash>>, <<"Gather", "language", s_en_US>>,
     <<"Record", "method", POST>>, <<"Record", "timeout", s_5>>,
     <<"Record", "finishOnKey", s_finish_keys>>,
     <<"Record", "maxLength", s_3600>>, <<"Record", "playBeep", s_true>>,
     <<"Record", "transcribe", s_false>>,
     <<"Dial", "method", POST>>, <<"Dial", "timeout", s_30>>,
     <<"Dial", "hangupOnStar", s_false>>, <<"Dial", "timeLimit", s_14400>>,
     <<"Dial", "trim", s_trim_silence>>,
     <<"Redirect", "method", POST>>, <<"Pause", "length", s_1>>,
     <<"Enqueue", "method", POST>>, <<"Enqueue", "waitUrlMethod", POST>>,
     <<"Refer", "method", POST>>,
     <<"Conference", "muted", s_false>>,
     <<"Conference", "startConferenceOnEnter", s_true>>}

\* The elements a builder call made (the others are roots and parsed ones).
Built == {n \in Ids : born[n].by # 0}

\* C3: no element a builder made carries an attribute whose value is the
\* documented default of that attribute.
C3_NoDefaultWritten ==
    \A n \in Built :
        \A d \in DocumentedDefaults :
            (elems[n].tag = d[1] /\ HasAttr(elems[n], d[2]))
                => AttrOf(elems[n], d[2]) # PyS(d[3])

\* What C4 says of a Say element made with keyword arguments kw.
SayLoopRule(e, kw) ==
    /\ HasAttr(e, "loop") <=> ~PyEq(kw.loop, PyInt(1))
    /\ HasAttr(e, "loop") => AttrOf(e, "loop") = PyS(IntToStr(kw.loop.v))

\* What C4 says of a Dial element made with keyword arguments kw.
DialMethodRule(e, kw) ==
    /\ HasAttr(e, "method") <=> ~PyEq(kw.method, PyS(POST))
    /\ HasAttr(e, "method") => AttrOf(e, "method") = kw.method

\* The keyword arguments of the logged call that made element n.
MadeWith(n) == calls[born[n].r][born[n].k].kw

\* C4: a Say element, under a Response or a Gather, has a loop attribute
\* exactly when its loop argument was not 1, holding the decimal string of
\* the argument; a Dial element has a method attribute exactly when its
\* method argument was not 'POST', holding the argument.
C4_SayLoopDialMethod ==
    /\ \A n \in Built :
          born[n].r # 0 =>
              /\ elems[n].tag = "Say" => SayLoopRule(elems[n], MadeWith(n))
              /\ elems[n].tag = "Dial" => DialMethodRule(elems[n], MadeWith(n))
    /\ last.op \in {"say", "Gather.say"} =>
           SayLoopRule(elems[last.node], last.kw)
    /\ last.op = "dial" => DialMethodRule(elems[last.node], last.kw)

\* C4's case: a Say was just made inside a Gather with loop=3.
C4_Witness ==
    /\ last.op = "Gather.say"
    /\ last.kw.loop = PyInt(3)
    /\ elems[last.on].tag = "Gather"
    /\ HasAttr(elems[last.node], "loop")

DialNouns == {"Number", "Sip", "Client", "Conference", "Queue", "Sim"}

\* C5: no Dial holds a target noun whose text is empty.
C5_NoEmptyDialTarget ==
    \A n \in Ids :
        elems[n].tag = "Dial" =>
            \A i \in 1..Len(elems[n].children) :
                LET c == elems[elems[n].children[i]]
                IN (c.tag \in DialNouns /\ born[elems[n].children[i]].by # 0)
                       => Truthy(c.text)

RECURSIVE Ascending(_)
\* The numbers of S, smallest first.
Ascending(S) ==
    IF S = {} THEN <<>>
    ELSE LET m == CHOOSE x \in S : \A y \in S : x <= y
         IN <<m>> \o Ascending(S \ {m})

\* The heap with every child list replaced by the elements the builder calls
\* on that container made, in the order of the calls.
InCallOrder ==
    [n \in Ids |->
        [elems[n] EXCEPT
            !.children = Ascending({m \in Ids : born[m].by = n})]]

\* Response.append was never called on r.
NoAppend(r) == \A i \in 1..Len(calls[r]) : calls[r][i].op # "append"

CreatingOps ==
    {"say", "play", "gather", "record", "dial", "hangup", "redirect",
     "reject", "pause", "enqueue", "leave", "refer", "start", "stop",
     "connect", "echo", "Gather.say", "Gather.play", "Gather.pause",
     "Dial.number", "Dial.sip", "Dial.client", "Dial.conference",
     "Dial.queue", "Dial.sim", "Enqueue.task", "Refer.sip", "Start.stream",
     "Connect.stream"}

\* C6: the element a builder call makes is the last child of the container
\* the call was made on; and the serialization of a document built by
\* builder calls alone is the XML declaration followed by the elements,
\* depth-first, each container's children in the order of the calls.
C6_CallOrder ==
    /\ last.op \in CreatingOps =>
           /\ elems[last.on].children # <<>>
           /\ elems[last.on].children[Len(elems[last.on].children)]
                  = last.node
    /\ \A r \in responses :
           (NoAppend(r) /\ Serializable(elems, r)) =>
               /\ \A n \in Desc(elems, r) :
                      elems[n].children = InCallOrder[n].children
               /\ TwiML_str(elems, r)
                      = XmlDeclaration \o tostring(InCallOrder, r)

\* C6's case: a document of builder calls alone whose root has two children
\* or more, one of them with a child of its own.
C6_Witness ==
    \E r \in responses :
        /\ NoAppend(r)
        /\ Len(elems[r].children) >= 2
        /\ \E i \in 1..Len(elems[r].children) :
               elems[elems[r].children[i]].children # <<>>
        /\ last.op \in CreatingOps

\* Absent text and empty text.
NoText(x) == x.t = "None" \/ (x.t = "str" /\ x.v = <<>>)

RECURSIVE SameTree(_, _, _, _)
\* The trees under a and b have the same tags, attributes, texts and
\* children, in the same order; `strict` tells absent text from empty text.
SameTree(es, a, b, strict) ==
    /\ es[a].tag = es[b].tag
    /\ es[a].attrib = es[b].attrib
    /\ \/ es[a].text = es[b].text
       \/ ~strict /\ NoText(es[a].text) /\ NoText(es[b].text)
    /\ Len(es[a].children) = Len(es[b].children)
    /\ \A i \in 1..Len(es[a].children) :
           SameTree(es, es[a].children[i], es[b].children[i], strict)

\* C7 (as stated): two documents built by the same calls compare equal, and
\* two documents whose trees differ in a tag, an attribute, a text or the
\* order of children do not compare equal.
C7_EqualIffSameTree ==
    \A r1 \in responses, r2 \in responses :
        /\ calls[r1] = calls[r2] => TwiML_eq(elems, r1, r2)
        /\ TwiML_eq(elems, r1, r2) => SameTree(elems, r1, r2, TRUE)

\* C7 (amended): two documents built by the same calls compare equal, and
\* two documents whose trees differ in a tag, an attribute, a non-empty
\* text or the order of children do not compare equal; absent text and
\* empty text serialize alike.
C7_EqualIffSameTreeUpToEmptyText ==
    \A r1 \in responses, r2 \in responses :
        /\ calls[r1] = calls[r2] => TwiML_eq(elems, r1, r2)
        /\ TwiML_eq(elems, r1, r2) => SameTree(elems, r1, r2, FALSE)
        /\ (last.op = "eq" /\ last.on = r1 /\ last.kw = r2) =>
               (last.ret = "True" <=> SameTree(elems, r1, r2, FALSE))

\* C7's case: two documents of the same non-empty call sequence were
\* compared and found equal.
C7_Witness ==
    /\ last.op = "eq"
    /\ last.on # last.kw
    /\ calls[last.on] # <<>>
    /\ calls[last.on] = calls[last.kw]
    /\ last.ret = "True"

C9_NeverRaises == returned.exc = ""

\* C10: every value of a parameter map the normalizer returns is a str, and
\* none is the empty str.
C10_NonEmptyStrings ==
    (returned.op # "none" /\ returned.exc = "") =>
        \A k \in DOMAIN returned.map :
            returned.map[k].t = "str" /\ returned.map[k].v # <<>>

\* The payload the normalizer works on, where the request gives one.
Payload == RequestData(request).v

\* The request takes the short way of convert_to_twilio_format.
ShortCircuit ==
    /\ returned.op # "none"
    /\ RequestData(request).t = "data"
    /\ "CallSid" \in DOMAIN Payload
    /\ "event" \notin DOMAIN Payload

RequiredDefaults ==
    ("ApiVersion" :> PyS(<<"2", "0", "1", "0", "-", "0", "4", "-", "0", "1">>))
    @@ ("Direction" :> PyS(<<"o", "u", "t", "b", "o", "u", "n", "d", "-", "a", "p", "i">>))

\* C11 (as stated): a payload with the key CallSid and no key event comes
\* back as the input map plus ApiVersion and Direction where those were
\* missing: every input key keeps its input value and no other key is added.
C11_InputPlusDefaults ==
    ShortCircuit =>
        /\ returned.exc = ""
        /\ returned.map = Payload @@ RequiredDefaults

\* A value that enhance_twilio_data lets through as it is.
NonEmptyStr(x) == x.t = "str" /\ x.v # <<>>

\* C11 (amended): a payload with the key CallSid and no key event comes back
\* with no key other than its own, ApiVersion and Direction; every entry
\* whose value is a non-empty str is returned as it is; every other entry
\* is either dropped (None, or an empty string form) or returned as the
\* string form of its value; ApiVersion and Direction are always present,
\* with their defaults where the input has none or an empty one.
C11_InputStringifiedPlusDefaults ==
    ShortCircuit =>
        /\ returned.exc = ""
        /\ DOMAIN returned.map \subseteq DOMAIN Payload \cup DOMAIN RequiredDefaults
        /\ DOMAIN RequiredDefaults \subseteq DOMAIN returned.map
        /\ \A k \in DOMAIN returned.map : NonEmptyStr(returned.map[k])
        /\ \A k \in DOMAIN Payload :
               /\ NonEmptyStr(Payload[k]) => returned.map[k] = Payload[k]
               /\ k \in DOMAIN returned.map =>
                      \/ returned.map[k].v = Str(Payload[k])
                      \/ /\ k \in DOMAIN RequiredDefaults
                         /\ ~Truthy(Payload[k])
               /\ k \notin DOMAIN returned.map =>
                      Payload[k].t = "None" \/ Str(Payload[k]) = <<>>
        /\ \A k \in DOMAIN RequiredDefaults :
               (k \notin DOMAIN Payload \/ ~Truthy(Payload[k])) =>
                   returned.map[k] = RequiredDefaults[k]

\* C11's case: the documented example was normalized and came back with
\* four entries, the value of From being the input's.
C11_Witness ==
    /\ ShortCircuit
    /\ DOMAIN Payload = {"CallSid", "From"}
    /\ DOMAIN returned.map = {"CallSid", "From", "ApiVersion", "Direction"}
    /\ returned.map["From"] = Payload["From"]
    /\ returned.map["Direction"] = PyS(<<"o", "u", "t", "b", "o", "u", "n", "d", "-", "a", "p", "i">>)

\* The lower-case event type of the payload, empty where it has none.
EventText ==
    IF event_type(Payload).t = "raise" THEN <<>> ELSE event_type(Payload).v

\* The normalizer returned a parameter map for a payload.
Normalized ==
    /\ returned.op # "none"
    /\ returned.exc = ""
    /\ RequestData(request).t = "data"

RecordingFields ==
    {"RecordingSid", "RecordingUrl", "RecordingDuration", "RecordingStatus",
     "RecordingChannels", "RecordingSource", "RecordingTrack",
     "RecordingStartTime"}
DialConferenceFields ==
    {"DialCallSid", "DialCallStatus", "DialCallDuration", "ConferenceSid",
     "FriendlyName", "Muted", "Hold"}
SipFields ==
    {"SipCallId", "SipResponseCode", "SipHeader_User_Agent",
     "SipHeader_Contact"}

DigitEvent ==
    \/ Contains(EventText, <<"d", "t", "m", "f">>)
    \/ Contains(EventText, <<"d", "i", "g", "i", "t">>)
    \/ Contains(EventText, <<"g", "a", "t", "h", "e", "r">>)
GatherEvent == Contains(EventText, <<"g", "a", "t", "h", "e", "r">>)
RecordingEvent == Contains(EventText, <<"r", "e", "c", "o", "r", "d", "i", "n", "g">>)
DialConferenceEvent ==
    Contains(EventText, <<"d", "i", "a", "l">>) \/ Contains(EventText, <<"c", "o", "n", "f", "e", "r", "e", "n", "c", "e">>)
SipMarkers ==
    \/ Truthy(Get(Payload, "sipCallId", PyNone))
    \/ Truthy(Get(Payload, "sipResponseCode", PyNone))
    \/ Contains(Lower(PyS(Str(Get(Payload, "event", PyS(<<>>))))).v, <<"s", "i", "p">>)

\* The documented example: a dtmf event with digit '5' yields Digits='5',
\* a non-empty CallSid and no SpeechResult.
DtmfExample ==
    Payload = [event |-> PyS(<<"d", "t", "m", "f", ".", "r", "e", "c", "e", "i", "v", "e", "d">>), digit |-> PyS(<<"5">>),
               callId |-> PyS(<<"a", "b", "c">>)]
        => /\ returned.map["Digits"] = PyS(<<"5">>)
           /\ Truthy(Get(returned.map, "CallSid", PyNone))
           /\ "SpeechResult" \notin DOMAIN returned.map

\* C12 (as stated): in the output, Digits appears only for digit, dtmf and
\* gather events, SpeechResult only for gather events, the Recording fields
\* only for recording events, the Dial and Conference fields only for dial
\* and conference events and the Sip fields only with SIP markers.
C12_EventClassFields ==
    Normalized =>
        LET out == DOMAIN returned.map
        IN /\ "Digits" \in out => DigitEvent
           /\ "SpeechResult" \in out => GatherEvent
           /\ out \cap RecordingFields # {} => RecordingEvent
           /\ out \cap DialConferenceFields # {} => DialConferenceEvent
           /\ out \cap SipFields # {} => SipMarkers
           /\ DtmfExample

\* The payload itself carries a digits value the generic fallback reads.
CarriesDigits ==
    \E k \in {"Digits", "digits", "digit", "input"} :
        Truthy(Get(Payload, k, PyNone))
\* The payload itself carries a recording identifier.
CarriesRecording ==
    \E k \in {"recordingId", "RecordingSid"} : Truthy(Get(Payload, k, PyNone))

\* C12 (amended): for a payload that is converted (one with an event key or
\* without CallSid), SpeechResult appears only for gather events, the Dial
\* and Conference fields only for dial and conference events, the Sip
\* fields only with SIP markers, the Recording fields only for recording
\* events or payloads that carry a recording identifier, and Digits only
\* for digit, dtmf and gather events or payloads that carry a digits value;
\* a payload with CallSid and no event key has only the event-class fields
\* it came with; the dtmf example is as documented.
C12_EventClassFieldsOrCarried ==
    Normalized =>
        LET out == DOMAIN returned.map
            class == {"Digits", "SpeechResult"} \cup RecordingFields
                     \cup DialConferenceFields \cup SipFields
        IN /\ ShortCircuit => out \cap class \subseteq DOMAIN Payload
           /\ ~ShortCircuit =>
               /\ "Digits" \in out => DigitEvent \/ CarriesDigits
               /\ "SpeechResult" \in out => GatherEvent
               /\ out \cap RecordingFields # {} =>
                      RecordingEvent \/ CarriesRecording
               /\ out \cap DialConferenceFields # {} => DialConferenceEvent
               /\ out \cap SipFields # {} => SipMarkers
           /\ DtmfExample

\* C12's case: the dtmf example was normalized and Digits is in the output.
C12_Witness ==
    /\ Normalized
    /\ Payload = [event |-> PyS(<<"d", "t", "m", "f", ".", "r", "e", "c", "e", "i", "v", "e", "d">>), digit |-> PyS(<<"5">>),
                  callId |-> PyS(<<"a", "b", "c">>)]
    /\ returned.map["Digits"] = PyS(<<"5">>)

\* The keys under which a payload carries a duration, a sequence number, a
\* mute or hold flag or a dial status.
SentinelSources ==
    {"duration", "CallDuration", "call_duration", "seconds", "Duration",
     "sequenceNumber", "sequence", "SequenceNumber", "muted", "Muted",
     "hold", "Hold", "dialStatus", "DialCallStatus", "dialDuration",
     "DialCallDuration"}

\* C13: for a payload that carries no duration, sequence number, mute or
\* hold flag or dial status, none of CallDuration, Duration, SequenceNumber,
\* Muted, Hold and DialCallDuration is in the output with the value '0' or
\* 'false'.
C13_NoSentinelValues ==
    (Normalized /\ DOMAIN Payload \cap SentinelSources = {}) =>
        \A k \in {"CallDuration", "Duration", "SequenceNumber", "Muted",
                  "Hold", "DialCallDuration"} :
            k \in DOMAIN returned.map =>
                returned.map[k].v \notin {<<"0">>, <<"f", "a", "l", "s", "e">>}

CanonicalStatuses ==
    {<<"q", "u", "e", "u", "e", "d">>, <<"r", "i", "n", "g", "i", "n", "g">>, <<"i", "n", "-", "p", "r", "o", "g", "r", "e", "s", "s">>, <<"c", "o", "m", "p", "l", "e", "t", "e", "d">>, <<"f", "a", "i", "l", "e", "d">>, <<"b", "u", "s", "y">>,
     <<"n", "o", "-", "a", "n", "s", "w", "e", "r">>, <<"c", "a", "n", "c", "e", "l", "e", "d">>}

\* C14: the status of a CallInstance is one of queued, ringing, in-progress,
\* completed, failed, busy, no-answer and canceled in every state: after it
\* was made from a payload and after every update and fetch.
C14_StatusCanonical ==
    call.made => call.status.t = "str" /\ call.status.v \in CanonicalStatuses

\* C14's case: an instance made from a payload of status ANSWERED was
\* fetched, the fetch returned, and the status it left is the fallback.
C14_Witness ==
    /\ call.made
    /\ Get(request.v, "status", PyNone) = PyS(<<"A", "N", "S", "W", "E", "R", "E", "D">>)
    /\ callret = Returned("fetch")
    /\ call.status = PyS(<<"q", "u", "e", "u", "e", "d">>)


(***************************************************************************)
(* C15, C16: the two mappers on the same payload.                          *)
(***************************************************************************)
\* Both paths were taken for the payload: a CallInstance was constructed
\* from it and the normalizer returned its parameter map.
BothPaths ==
    /\ call.made
    /\ callret.op = "CallInstance"
    /\ Normalized

\* The payload's status, lowered as both mappers lower it.
InputStatus == Lower(PyS(Str(Payload["status"]))).v

\* C15: a status found in neither table becomes 'queued' on a constructed
\* CallInstance and 'in-progress' in the normalized event, and a status that
\* is mapped gives the same canonical status on both paths.
C15_StatusPathsAgree ==
    (BothPaths /\ DOMAIN Payload = {"status"}) =>
        IF InTable(status_mapping, InputStatus) \/ InTable(status_map, InputStatus)
        THEN call.status = returned.map["CallStatus"]
        ELSE /\ call.status = PyS(<<"q", "u", "e", "u", "e", "d">>)
             /\ returned.map["CallStatus"] = PyS(<<"i", "n", "-", "p", "r", "o", "g", "r", "e", "s", "s">>)


\* The answered-by values of the table.
CanonicalAnsweredBy == {PyS(<<"h", "u", "m", "a", "n">>), PyS(<<"m", "a", "c", "h", "i", "n", "e">>), PyS(<<"u", "n", "k", "n", "o", "w", "n">>)}

\* The answered-by value the table gives for the payload's AMD status, None
\* for an absent or unrecognized one.
TableAnsweredBy ==
    IF /\ "amd" \in DOMAIN Payload
       /\ Payload["amd"].t = "dict"
       /\ MethodGet(Payload["amd"], "status", PyNone).t = "str"
    THEN MappingGet(answered_by_mapping,
                    Upper(MethodGet(Payload["amd"], "status", PyNone).v))
    ELSE PyNone

\* C16: on a constructed CallInstance and in the normalized event, the
\* answered-by value is the one the table gives for the payload's AMD
\* status (none for an absent or unrecognized status), hence always human,
\* machine, unknown or absent.
C16_AnsweredByTable ==
    /\ (call.made /\ callret.op = "CallInstance") =>
           /\ call.answered_by \in CanonicalAnsweredBy \cup {PyNone}
           /\ call.answered_by = TableAnsweredBy
    /\ Normalized =>
           IF "AnsweredBy" \in DOMAIN returned.map
           THEN /\ returned.map["AnsweredBy"] \in CanonicalAnsweredBy
                /\ returned.map["AnsweredBy"] = TableAnsweredBy
           ELSE TableAnsweredBy = PyNone


(***************************************************************************)
(* C17, C18: the phone formatters.                                         *)
(***************************************************************************)
\* C17: a formatter given its own result returns it unchanged:
\* toE164(toE164(x)) = toE164(x), for format_phone_number and for
\* CallInstance._format_phone.
C17_FormatterIdempotent ==
    Len(output) = 2 => output[2].r = output[1].r

C17_Witness ==
    /\ input = PyS(<<"5", "5", "5", "1", "2", "3", "4", "5", "6", "7">>)
    /\ Len(output) = 2
    /\ output[1].f = "format_phone_number"
    /\ output[2].r = PyS(<<"+", "1", "5", "5", "5", "1", "2", "3", "4", "5", "6", "7">>)


\* The number stripped as described: its digits, after a '+' when the first
\* character kept is one.
Stripped ==
    LET clean == SelectSeq(Str(input), LAMBDA c : IsDigit(c) \/ c = "+")
    IN (IF StartsWith(clean, <<"+">>) THEN <<"+">> ELSE <<>>)
           \o SelectSeq(clean, IsDigit)

\* C18: format_phone_number and CallInstance._format_phone return a string
\* of digits with '+' at most at its first position; ten digits get the
\* prefix '+1', eleven digits starting with '1' get the prefix '+', and a
\* number that starts with '+' is returned as stripped.
C18_DigitsAndLeadingPlus ==
    (/\ Len(output) >= 1
     /\ output[1].f \in {"format_phone_number", "CallInstance._format_phone"}
     /\ Truthy(input)) =>
        LET r == output[1].r
        IN /\ r.t = "str"
           /\ \A i \in 1..Len(r.v) :
                  IsDigit(r.v[i]) \/ (i = 1 /\ r.v[i] = "+")
           /\ (Len(Stripped) = 10 /\ ~StartsWith(Stripped, <<"+">>)) =>
                  r.v = <<"+", "1">> \o Stripped
           /\ (Len(Stripped) = 11 /\ StartsWith(Stripped, <<"1">>)) =>
                  r.v = <<"+">> \o Stripped
           /\ StartsWith(Stripped, <<"+">>) => r.v = Stripped


(***************************************************************************)
(* C19: signature validation.                                              *)
(***************************************************************************)
\* base64(HMAC-SHA1(authToken, url followed by key+value of the parameters
\* in ascending key order)), for the request given.
CorrectSignature ==
    b64encode(hmac_sha1(encode_utf8(input.auth_token),
                        encode_utf8(input.url
                                    \o KeyValues(sorted_items(input.params)))))

\* C19: validate_request returns true exactly when the signature equals the
\* correctly computed one, and false for every signature that differs from
\* it, in whatever order the parameters were inserted; the signature its
\* sender computed for a request is accepted.
C19_TrueExactlyForCorrectSignature ==
    (output # PyNone /\ input.signature.t = "str") =>
        /\ output = PyBool(input.signature = PyS(CorrectSignature))
        /\ input \in SignedRequests => output = PyBool(TRUE)


(***************************************************************************)
(* C20: the registry.                                                      *)
(***************************************************************************)
\* The process_webhook calls that returned a map with CallSid s for a client.
CallsFor(s) ==
    {i \in 1..Len(history) : history[i].sid = PyS(s) /\ history[i].client # 0}

\* The client of the most recent of them, 0 (None) when there is none.
MostRecentClient(s) ==
    IF CallsFor(s) = {} THEN 0
    ELSE history[CHOOSE i \in CallsFor(s) : \A j \in CallsFor(s) : j <= i].client

C21_NoEviction ==
    [][/\ DOMAIN contexts \subseteq DOMAIN contexts'
       /\ (history' # history /\ client' = 0) => contexts' = contexts]_vars

\* A client was registered for CA123, a later request for CA123 came with
\* no client, a signature was validated, and CA123 is still registered.
C21_Witness ==
    /\ Len(history) >= 2
    /\ history[1] = [sid |-> PyS(<<"C", "A", "1", "2", "3">>), client |-> 1]
    /\ history[2] = [sid |-> PyS(<<"C", "A", "1", "2", "3">>), client |-> 0]
    /\ output # PyNone
    /\ <<"C", "A", "1", "2", "3">> \in DOMAIN contexts
    /\ contexts[<<"C", "A", "1", "2", "3">>] = 1


(***************************************************************************)
(* C22: the sub-resources of a CallInstance.                               *)
(***************************************************************************)
\* C22: in every state of a constructed CallInstance, each sub-resource
\* locator is /2010-04-01/Accounts/{account_sid}/Calls/{sid}/{K}.json for
\* the sid the instance has now, and each sub-resource list handed out is
\* bound to that sid.
C22_SubresourcesFollowSid ==
    call.made =>
        /\ \A k \in DOMAIN call.subresource_uris.v :
               call.subresource_uris.v[k] =
                   PyS(<<"/", "2", "0", "1", "0", "-", "0", "4", "-", "0", "1", "/", "A", "c", "c", "o", "u", "n", "t", "s", "/">> \o account_sid \o <<"/", "C", "a", "l", "l", "s", "/">>
                       \o Str(call.sid) \o <<"/">>
                       \o (CHOOSE p \in SubresourcePaths : p[1] = k)[2]
                       \o <<".", "j", "s", "o", "n">>)
        /\ \A k \in DOMAIN call.accessors :
               call.accessors[k].t = "list" => call.accessors[k].v = call.sid


(***************************************************************************)
(* C23, C24, C25: the errors of the operations on the transport.           *)
(***************************************************************************)
\* The arguments of create that miss a required one.
InvalidCreate(kw) ==
    \/ ~Truthy(kw.to)
    \/ ~Truthy(kw.from_) /\ ~Truthy(kw.caller_id)
    \/ ~Truthy(kw.url) /\ ~Truthy(kw.twiml) /\ ~Truthy(kw.application_sid)

\* C23: create with an empty destination, with neither from_ nor
\* caller_id, or with none of url, twiml and application_sid raises a
\* TwilioRestException and has sent no request.
C23_InvalidCreateNeverSent ==
    (callret.op = "create" /\ InvalidCreate(input)) =>
        /\ callret.exc = "TwilioRestException"
        /\ output = <<>>

\* C24: deleting a call record always raises a TwilioRestException with
\* one code, creating, getting and listing messages always raise with one
\* code, and none of them sends a request.
C24_UnsupportedAlwaysRaises ==
    /\ callret.op = "delete" =>
           /\ callret.exc = "TwilioRestException"
           /\ callret.code = 20005
           /\ output = <<>>
    /\ callret.op \in {"messages.create", "messages.get", "messages.list"} =>
           /\ callret.exc = "TwilioRestException"
           /\ callret.code = 20404
           /\ output = <<>>

\* A request the transport did not answer with a 2xx response.
FailedRequest(r) ==
    \/ r.outcome.raised # ""
    \/ r.outcome.status_code < 200
    \/ r.outcome.status_code >= 300

\* C25: when a request of create, update or delete got a response that is
\* not 2xx, or no response, the operation raised a TwilioRestException.
C25_FailedTransportRaises ==
    (/\ callret.op \in {"create", "update", "delete"}
     /\ \E i \in DOMAIN output : FailedRequest(output[i])) =>
        callret.exc = "TwilioRestException"

C25_Witness ==
    /\ callret.op = "update"
    /\ variant = "module"
    /\ Len(output) = 2
    /\ ~FailedRequest(output[1])
    /\ output[2].outcome.status_code = 500
    /\ callret.exc = "TwilioRestException"


(***************************************************************************)
(* C26: the fallback chains of the normalizer.                             *)
(***************************************************************************)
RECURSIVE FirstValue(_, _)
\* The value of the first key of the chain that the payload holds with a
\* value that is not empty, None when there is no such key.
FirstValue(p, keys) ==
    IF keys = <<>> THEN PyNone
    ELSE IF keys[1] \in DOMAIN p /\ p[keys[1]] \notin {PyNone, PyS(<<>>)}
    THEN p[keys[1]]
    ELSE FirstValue(p, Tail(keys))

CallIdChain == <<"callId", "CallSid", "call_sid", "sid", "id">>
FromChain == <<"from", "From", "callerId", "caller_id", "caller", "source">>

\* The request went through the extraction of fields and a map came back.
Extracted == Normalized /\ ~ShortCircuit

C27_OutputStatusCanonical ==
    (Normalized /\ "CallStatus" \in DOMAIN returned.map) =>
        returned.map["CallStatus"].v \in CanonicalStatuses

\* C27 (amended): on the extraction path a CallStatus in the output is one
\* of the eight statuses; on the short-circuit it is the text of the
\* CallStatus of the input.
C27_ExtractedStatusCanonical ==
    (Normalized /\ "CallStatus" \in DOMAIN returned.map) =>
        IF ShortCircuit
        THEN /\ "CallStatus" \in DOMAIN Payload
             /\ returned.map["CallStatus"].v = Str(Payload["CallStatus"])
        ELSE returned.map["CallStatus"].v \in CanonicalStatuses

C27_Witness ==
    /\ Extracted
    /\ "status" \in DOMAIN Payload
    /\ Payload["status"] = PyS(<<"w", "e", "i", "r", "d">>)
    /\ returned.map["CallStatus"] = PyS(<<"i", "n", "-", "p", "r", "o", "g", "r", "e", "s", "s">>)


(***************************************************************************)
(* C28: what CallInstance.update leaves of the instance.                   *)
(***************************************************************************)
\* The first request of the log is the hangup request and got a 2xx answer.
HangupSucceeded(sent) ==
    /\ Len(sent) >= 1
    /\ sent[1].uri = PyS(<<"/", "h", "a", "n", "g", "u", "p">>)
    /\ ~FailedRequest(sent[1])

\* status and end_time of the instance are those of before.
SameStatus(before, after) ==
    /\ after.status = before.status
    /\ after.end_time = before.end_time

\* C28 (as stated): update sets status to 'completed' and end_time only
\* after the hangup request returned success, and whenever update raises a
\* TwilioRestException status and end_time are those of before the call.
C28_UpdateOnlyOnSuccess ==
    [][callret'.op = "update" =>
           /\ ~SameStatus(call, call') =>
                  /\ HangupSucceeded(output')
                  /\ call'.status = PyS(<<"c", "o", "m", "p", "l", "e", "t", "e", "d">>)
           /\ callret'.exc = "TwilioRestException" => SameStatus(call, call')]_vars

\* C28 (amended): update sets status to 'completed' and end_time only after
\* the hangup request returned success; when update raises without having
\* sent a second request, status and end_time are those of before the call;
\* when it raises from the update request that follows a hangup, status is
\* 'completed' and end_time is set.
C28_UpdateKeepsHangup ==
    [][callret'.op = "update" =>
           /\ ~SameStatus(call, call') =>
                  /\ HangupSucceeded(output')
                  /\ call'.status = PyS(<<"c", "o", "m", "p", "l", "e", "t", "e", "d">>)
           /\ (callret'.exc = "TwilioRestException" /\ Len(output') < 2) =>
                  SameStatus(call, call')
           /\ (callret'.exc = "TwilioRestException" /\ Len(output') = 2) =>
                  /\ HangupSucceeded(output')
                  /\ call'.status = PyS(<<"c", "o", "m", "p", "l", "e", "t", "e", "d">>)
                  /\ call'.end_time = Now]_vars

C28_Witness ==
    /\ callret.op = "update"
    /\ callret.exc = "TwilioRestException"
    /\ Len(output) = 2
    /\ HangupSucceeded(output)
    /\ FailedRequest(output[2])
    /\ call.status = PyS(<<"c", "o", "m", "p", "l", "e", "t", "e", "d">>)
    /\ call.end_time = Now


(***************************************************************************)
(* C29: the loop of VoiceResponse.append.                                  *)
(***************************************************************************)
\* C29: while append(twiml) runs for a TwiML object, the children it has
\* added are no more than the children the argument's root had when the
\* call began (for the response itself: the children it has now less those
\* added).
C29_AppendAddsNoMoreThanGiven ==
    loop # <<>> =>
        LET l == loop[1]
            added == l.i - 1
            had == IF l.src = l.dst THEN Len(elems[l.src].children) - added
                   ELSE Len(elems[l.src].children)
        IN added <= had


(***************************************************************************)
(* C30: Enqueue.task.                                                      *)
(***************************************************************************)
\* C30: Enqueue.task returns the builder and has made one Task element; its
\* text is a str (the JSON text of the attributes) when an attribute is not
\* None, and absent when none is.
C30_TaskCompletes ==
    last.op = "Enqueue.task" =>
        /\ last.ret = "self"
        /\ elems[last.node].tag = "Task"
        /\ IF \E i \in 1..Len(last.kw) : last.kw[i][2].t # "None"
           THEN elems[last.node].text.t = "str"
           ELSE elems[last.node].text.t = "None"

=============================================================================
